---- MODULE Spec2Model ----
(***************************************************************************)
(* A model of the SIEPE ingestion service (chatbot-siiepe):                *)
(*   - the job store and job threads of app.py (siepe_start, _run_job,     *)
(*     _update_job, the progress callback of _progress_cb_factory),        *)
(*   - the crawl of siepe_worker.py (processar_todos, processar_url and    *)
(*     the temporary files of baixar_pdf_para_tmp / mesclar_info_e_pdf),   *)
(*   - the chunker and the metadata extractor of ingest.py (chunk_text,    *)
(*     extract_metadata) with the cover page of criar_pagina_info_fitz.    *)
(* Optional values (Python's None) are sequences: <<>> is None, <<v>> is v.*)
(***************************************************************************)
EXTENDS Integers, Sequences, FiniteSets, TLC

\* ------------------------------------------------------------- bounds
\* Number of jobs that can be submitted.
MaxJobs == 2
\* Largest number of rows a listing page can hold.
MaxItens == 3
\* Sizes of the default catalogues of processar_todos (10 x 14 x 4 in the
\* source, reduced here).
NumAnos == 2
NumAreas == 2
NumEventos == 2
\* Number of page-level failures (a listing that cannot be fetched, an
\* exception leaving processar_url) and of failing item steps the environment
\* injects in one run.
MaxPageFaults == 1
MaxItemFaults == 2

\* chunk_text: raw paragraphs of a text, tokens of a paragraph, and the
\* largest max_tokens tried.
MaxParas == 3
MaxParaLen == 5
MaxTok == 3
\* Cover page: plain words a scraped value is made of, and the tokens of a
\* scraped value.
NumWords == 1
MaxValueLen == 2
\* First page of a document: the atoms of its text.
MaxTextLen == 3
\* Query: characters of a question, the largest top_k, values a filter
\* field can take, hits a search can return.
MaxQLen == 2
MaxTopK == 4
NumFilterValues == 2
MaxHits == 2
\* query_endpoint: the longest stored content (besides the lengths around
\* MAX_CHARS_PER_CHUNK).
MaxContent == 203

Jobs == 1..MaxJobs

VARIABLES
    JOBS,       \* app.py JOBS: job id -> snapshot (a function on the ids stored)
    JOB_LOCK,   \* app.py JOB_LOCK: 0 when free, else the job whose thread holds it
    http,       \* position of the siepe_start request handler of each job
    req,        \* the SiepeIngestRequest of each job
    pc,         \* position of each job thread in _run_job / the crawl
    loc,        \* locals of each job thread (processar_todos / processar_url)
    call,       \* the _update_job or callback invocation a job thread is inside
    fs,         \* temporary files that exist under /tmp
    site,       \* the web site: page target -> number of rows of its listing
    faults      \* failures the environment may still inject: [page, item]

jobvars == <<JOBS, JOB_LOCK, http, req, pc, loc, call, fs, site, faults>>

VARIABLES
    text,           \* chunk_text: the text, a sequence of raw paragraphs
                    \* (the pieces between blank lines), each a token sequence
    max_tokens,     \* chunk_text argument
    overlap_tokens, \* chunk_text argument
    chunks,         \* chunk_text local: the chunks, each a token sequence
    current,        \* chunk_text local: the buffer, a list of token sequences
    cur_len,        \* chunk_text local
    ip,             \* the paragraph the loop of chunk_text is at
    cpc,            \* position in chunk_text: "off", "loop", "done"
    cur_seed,       \* what the buffer was seeded from: the chunk flushed
                    \* before it, and how many tokens were taken from it
    cur_paras,      \* the paragraphs put in the buffer since it was started
    kinds,          \* for each chunk: how it was built and its overlap
    earlier         \* what an earlier call of chunk_text with the same
                    \* arguments returned, once there is one

chunkvars == <<text, max_tokens, overlap_tokens, chunks, current, cur_len, ip,
               cpc, cur_seed, cur_paras, kinds, earlier>>

VARIABLES
    fields,         \* the eight arguments of criar_pagina_info_fitz
    texto,          \* the text of the cover page
    meta,           \* the dict extract_metadata returns
    mpc             \* position: "off", "render", "extract", "done"

metavars == <<fields, texto, meta, mpc>>

VARIABLES
    qreq,           \* the QueryRequest: q, top_k, filters
    qpc,            \* position in query_endpoint
    qloc,           \* the locals of query_endpoint
    qcalls,         \* the calls made to the completion service, the
                    \* embedding model and the vector store, in order
    qres            \* the HTTP response, once there is one

queryvars == <<qreq, qpc, qloc, qcalls, qres>>

VARIABLES
    ipc,            \* position in ingest_pdf: "off", "open", "chunk",
                    \* "done", "raised"
    doc_id,         \* ingest_pdf local
    points,         \* ingest_pdf local
    writes,         \* the batches handed to qdrant.upsert, in order
    uuid            \* the uuid4 values drawn so far

ingestvars == <<ipc, doc_id, points, writes, uuid>>

VARIABLES
    payload,        \* the content of a hit's payload: None when the payload
                    \* has none, else a string (a sequence of characters)
    snippet,        \* the snippet query_endpoint puts in sources for the hit
    spc             \* position in the loop body: "off", "hit", "done"

sourcevars == <<payload, snippet, spc>>

VARIABLES
    rd,             \* a siepe_status request: its job id, its position and
                    \* the fields of the response read so far
    seen            \* the snapshots the job of the request had between
                    \* complete mutations, from the last one before the
                    \* request on

readvars == <<rd, seen>>

\* ------------------------------------------------------------- helpers
None == <<>>
Some(v) == <<v>>
IsSome(o) == o # <<>>
The(o) == o[1]

Min(a, b) == IF a <= b THEN a ELSE b

\* dict.update(patch): the keys of patch overwrite or extend d.
DictUpdate(d, patch) ==
    [k \in (DOMAIN d) \cup (DOMAIN patch) |->
        IF k \in DOMAIN patch THEN patch[k] ELSE d[k]]

\* ------------------------------------------------------------- requests
DefaultAnos == [i \in 1..NumAnos |-> i]
DefaultAreas == [i \in 1..NumAreas |-> i]
DefaultEventos == [i \in 1..NumEventos |-> i]

\* req.anos or None, _build_area_list, _build_event_list: an empty or missing
\* list selects the default catalogue.
OrDefault(list, default) == IF list = <<>> THEN default ELSE list

Request(anos, areas, eventos, max_itens, somente) ==
    [anos |-> anos, areas |-> areas, eventos |-> eventos,
     max_itens_por_pagina |-> max_itens, somente_esta_pagina |-> somente]

\* ------------------------------------------------------------- job store
\* The snapshot siepe_start stores.
NewJob(r) ==
    [status |-> "queued", created_at |-> 0, updated_at |-> 0, params |-> r,
     counters |-> [ok |-> 0, falha |-> 0], pages |-> [done |-> 0],
     current_page |-> None, last_item |-> None, last_ok_item |-> None,
     errors |-> <<>>, result |-> None, error |-> None]

\* JOBS.get(job_id, {}) followed by the setdefault calls of the callback.
JobGet(j) ==
    IF j \in DOMAIN JOBS THEN JOBS[j]
    ELSE [NewJob(req[j]) EXCEPT !.status = "none"]


\* _now_iso(): timestamps are logical, the number of refreshes of the job.
Tick(t) == t + 1

\* ------------------------------------------------------------- events
\* An event handed to on_item. Fields an event kind does not carry hold
\* 0 or "".
Evt(event, tgt, idx, total, status, error, ok, falha) ==
    [event |-> event, tgt |-> tgt, idx |-> idx, total |-> total,
     status |-> status, error |-> error, ok |-> ok, falha |-> falha]

\* The item description the callback stores in last_item / last_ok_item.
ItemInfo(status, evt) ==
    [status |-> status, tgt |-> evt.tgt, idx |-> evt.idx, total |-> evt.total]

\* cb(evt) of _progress_cb_factory: page_start and item_start go through
\* _update_job with a patch; item_done and page_done have their own locked
\* sections.
CbCall(evt) ==
    CASE evt.event = "page_start" ->
            Some([fn |-> "update", step |-> 1,
                  arg |-> [current_page |->
                            Some([tgt |-> evt.tgt, total |-> evt.total,
                                  started |-> TRUE])]])
      [] evt.event = "item_start" ->
            Some([fn |-> "update", step |-> 1,
                  arg |-> [last_item |-> Some(ItemInfo("processing", evt))]])
      [] evt.event = "item_done" ->
            Some([fn |-> "item_done", step |-> 1, arg |-> evt])
      [] evt.event = "page_done" ->
            Some([fn |-> "page_done", step |-> 1, arg |-> evt])
      [] OTHER -> None

UpdateCall(patch) == Some([fn |-> "update", step |-> 1, arg |-> patch])

InCall(j, fn, step) ==
    /\ IsSome(call[j])
    /\ The(call[j]).fn = fn
    /\ The(call[j]).step = step

NextStep(j) == [call EXCEPT ![j] = Some([The(@) EXCEPT !.step = @ + 1])]
Return(j) == [call EXCEPT ![j] = None]

\* JOBS[job_id] = st (and, for a stored job, the in-place mutation of st).
StoreSt(j, st) == (j :> st) @@ JOBS

\* _update_job, first statement under the lock: JOBS[job_id].update(patch).
UpdateJobPatch(j) ==
    /\ InCall(j, "update", 1)
    /\ JOB_LOCK = 0
    /\ JOB_LOCK' = j
    /\ JOBS' = IF j \in DOMAIN JOBS
               THEN [JOBS EXCEPT ![j] = DictUpdate(@, The(call[j]).arg)]
               ELSE JOBS
    /\ call' = NextStep(j)
    /\ UNCHANGED <<http, req, pc, loc, fs, site, faults>>

\* UpdateJobStamp leaving the lock taken.
UpdateJobStamp_held(j) ==
    /\ InCall(j, "update", 2)
    /\ JOB_LOCK = j
    /\ JOBS' = IF j \in DOMAIN JOBS
               THEN [JOBS EXCEPT ![j].updated_at = Tick(@)]
               ELSE JOBS
    /\ call' = Return(j)
    /\ UNCHANGED <<JOB_LOCK, http, req, pc, loc, fs, site, faults>>

\* _update_job, second statement: updated_at, then the lock is released.
UpdateJobStamp(j) ==
    /\ InCall(j, "update", 2)
    /\ JOB_LOCK = j
    /\ JOBS' = IF j \in DOMAIN JOBS
               THEN [JOBS EXCEPT ![j].updated_at = Tick(@)]
               ELSE JOBS
    /\ JOB_LOCK' = 0
    /\ call' = Return(j)
    /\ UNCHANGED <<http, req, pc, loc, fs, site, faults>>

\* CountItem on a counters dict created anew for each event (an assignment
\* in place of setdefault).
CountItem_reset(st, evt) ==
    IF evt.status = "ok"
    THEN [st EXCEPT !.counters = [ok |-> 1, falha |-> 0],
                    !.last_ok_item = Some(ItemInfo("", evt))]
    ELSE [st EXCEPT !.counters = [ok |-> 0, falha |-> 1],
                    !.errors = Append(@, [tgt |-> evt.tgt, idx |-> evt.idx,
                                          msg |-> evt.error])]

\* The counter update of the item_done branch.
CountItem(st, evt) ==
    IF evt.status = "ok"
    THEN [st EXCEPT !.counters.ok = @ + 1,
                    !.last_ok_item = Some(ItemInfo("", evt))]
    ELSE [st EXCEPT !.counters.falha = @ + 1,
                    !.errors = Append(@, [tgt |-> evt.tgt, idx |-> evt.idx,
                                          msg |-> evt.error])]

\* ItemDoneCount outside of "with JOB_LOCK".
ItemDoneCount_nolock(j) ==
    /\ InCall(j, "item_done", 1)
    /\ JOBS' = StoreSt(j, CountItem(JobGet(j), The(call[j]).arg))
    /\ call' = NextStep(j)
    /\ UNCHANGED <<JOB_LOCK, http, req, pc, loc, fs, site, faults>>

\* item_done: lock taken, counters and last_ok_item / errors.
ItemDoneCount(j) ==
    /\ InCall(j, "item_done", 1)
    /\ JOB_LOCK = 0
    /\ JOB_LOCK' = j
    /\ JOBS' = StoreSt(j, CountItem(JobGet(j), The(call[j]).arg))
    /\ call' = NextStep(j)
    /\ UNCHANGED <<http, req, pc, loc, fs, site, faults>>

\* item_done: last_item.
ItemDoneLast(j) ==
    /\ InCall(j, "item_done", 2)
    /\ JOB_LOCK = j
    /\ LET evt == The(call[j]).arg
       IN JOBS' = StoreSt(j, [JobGet(j) EXCEPT
                     !.last_item = Some(ItemInfo(evt.status, evt))])
    /\ call' = NextStep(j)
    /\ UNCHANGED <<JOB_LOCK, http, req, pc, loc, fs, site, faults>>

\* item_done: updated_at, JOBS[job_id] = st, lock released.
ItemDoneStamp(j) ==
    /\ InCall(j, "item_done", 3)
    /\ JOB_LOCK = j
    /\ JOBS' = StoreSt(j, [JobGet(j) EXCEPT !.updated_at = Tick(@)])
    /\ JOB_LOCK' = 0
    /\ call' = Return(j)
    /\ UNCHANGED <<http, req, pc, loc, fs, site, faults>>

\* The pages counter update of the page_done branch.
CountPage(st) == [st EXCEPT !.pages.done = @ + 1]

\* PageDoneCount recording the error of the page in the errors list.
PageDoneCount_errors(j) ==
    /\ InCall(j, "page_done", 1)
    /\ JOB_LOCK = 0
    /\ JOB_LOCK' = j
    /\ LET evt == The(call[j]).arg
           st == CountPage(JobGet(j))
       IN JOBS' = StoreSt(j, IF evt.error = "" THEN st
                             ELSE [st EXCEPT !.errors =
                                     Append(@, [tgt |-> evt.tgt, idx |-> 0,
                                                msg |-> evt.error])])
    /\ call' = NextStep(j)
    /\ UNCHANGED <<http, req, pc, loc, fs, site, faults>>

\* page_done: lock taken, pages.done.
PageDoneCount(j) ==
    /\ InCall(j, "page_done", 1)
    /\ JOB_LOCK = 0
    /\ JOB_LOCK' = j
    /\ JOBS' = StoreSt(j, CountPage(JobGet(j)))
    /\ call' = NextStep(j)
    /\ UNCHANGED <<http, req, pc, loc, fs, site, faults>>

\* page_done: updated_at, JOBS[job_id] = st, lock released.
PageDoneStamp(j) ==
    /\ InCall(j, "page_done", 2)
    /\ JOB_LOCK = j
    /\ JOBS' = StoreSt(j, [JobGet(j) EXCEPT !.updated_at = Tick(@)])
    /\ JOB_LOCK' = 0
    /\ call' = Return(j)
    /\ UNCHANGED <<http, req, pc, loc, fs, site, faults>>

\* ------------------------------------------------------------- worker
\* Locals of a job thread before _run_job dispatches.
LocInit ==
    [mode |-> "none", anos |-> <<>>, areas |-> <<>>, eventos |-> <<>>,
     ai |-> 1, ci |-> 1, ei |-> 1, max_itens |-> None, tgt |-> <<0, 0, 0>>,
     total |-> 0, n |-> 0, idx |-> 0, ok |-> 0, falha |-> 0, erros |-> <<>>,
     orig_tmp |-> None, merged_tmp |-> None,
     resumo |-> None, r |-> None,
     log |-> <<>>,      \* the events on_item received for the current page
     raised |-> <<>>,   \* the targets for which processar_url raised
     calls |-> <<>>,    \* the targets processar_todos called processar_url
                        \* for, in order
     fails |-> 0,       \* the items of the page whose outcome was a failure
     sent |-> [item_done |-> 0, page_done |-> 0]]
                        \* the item_done and page_done events the job's
                        \* callback was called with

\* The summary processar_url returns.
PageSummary(tgt, total, ok, falha, erros) ==
    [url |-> tgt, total_listados |-> total, ok |-> ok, falha |-> falha,
     erros |-> erros]

\* len(itens[:max_itens]) for a listing of `total` rows (Python slicing: a
\* negative bound counts from the end).
Truncate(total, max_itens) ==
    IF max_itens = None THEN total
    ELSE IF The(max_itens) >= 0 THEN Min(total, The(max_itens))
    ELSE IF total + The(max_itens) > 0 THEN total + The(max_itens) ELSE 0

\* What can happen to a work item between item_start and item_done.
Outcomes == {"ok", "http", "stream", "corrupt", "insert", "save", "ingest"}

\* baixar_pdf_para_tmp: "http" fails before the temporary file is created,
\* "stream" fails while writing it (NamedTemporaryFile(delete=False) has
\* created it and nothing removes it), otherwise the name is returned.
baixar_pdf_para_tmp(name, o) ==
    IF o = "http" THEN [files |-> {}, ret |-> None, raised |-> TRUE]
    ELSE IF o = "stream" THEN [files |-> {name}, ret |-> None, raised |-> TRUE]
    ELSE [files |-> {name}, ret |-> Some(name), raised |-> FALSE]

\* verificar_pdf_ok: False for an unreadable or empty document.
verificar_pdf_ok(o) == o # "corrupt"

\* mesclar_info_e_pdf: "insert" fails before the output file is created,
\* "save" fails after NamedTemporaryFile(delete=False) created it.
mesclar_info_e_pdf(name, o) ==
    IF o = "insert" THEN [files |-> {}, ret |-> None, raised |-> TRUE]
    ELSE IF o = "save" THEN [files |-> {name}, ret |-> None, raised |-> TRUE]
    ELSE [files |-> {name}, ret |-> Some(name), raised |-> FALSE]

\* ingest_pdf as seen by the worker: it returns or raises.
IngestRaises(o) == o = "ingest"

\* Names of the temporary files of item idx of the page a thread is on
\* (tempfile names are unique).
TmpName(j, l, kind) == <<j, l.tgt, l.idx, kind>>

\* The try body of processar_url for one item under outcome o: the names
\* bound to orig_tmp / merged_tmp, the files created, and whether the except
\* branch ran.
ItemTry(j, l, o) ==
    LET dl == baixar_pdf_para_tmp(TmpName(j, l, "orig"), o)
    IN IF dl.raised
       THEN [orig_tmp |-> None, merged_tmp |-> None, files |-> dl.files,
             failed |-> TRUE]
       ELSE IF ~verificar_pdf_ok(o)
       THEN [orig_tmp |-> dl.ret, merged_tmp |-> None, files |-> dl.files,
             failed |-> TRUE]
       ELSE LET mg == mesclar_info_e_pdf(TmpName(j, l, "merged"), o)
            IN IF mg.raised
               THEN [orig_tmp |-> dl.ret, merged_tmp |-> None,
                     files |-> dl.files \cup mg.files, failed |-> TRUE]
               ELSE [orig_tmp |-> dl.ret, merged_tmp |-> mg.ret,
                     files |-> dl.files \cup mg.files,
                     failed |-> IngestRaises(o)]

OptSet(o) == IF IsSome(o) THEN {The(o)} ELSE {}

\* The finally block of an item: os.remove of orig_tmp and merged_tmp when
\* they are bound and exist.
RemoveTmp(files, l) == files \ (OptSet(l.orig_tmp) \cup OptSet(l.merged_tmp))

\* on_item(evt) from inside the crawl: the callback is entered and the event
\* is appended to the page's log.
Sent(sent, evt) ==
    IF evt.event \in DOMAIN sent THEN [sent EXCEPT ![evt.event] = @ + 1]
    ELSE sent

Emit(l, evt) == [l EXCEPT !.log = Append(@, evt), !.sent = Sent(@, evt)]

\* ------------------------------------------------------------- siepe_start
\* siepe_start: the snapshot is stored under the lock.
SiepeStartCreate(j) ==
    /\ http[j] = "idle"
    /\ JOB_LOCK = 0
    /\ JOBS' = StoreSt(j, NewJob(req[j]))
    /\ http' = [http EXCEPT ![j] = "created"]
    /\ UNCHANGED <<JOB_LOCK, req, pc, loc, call, fs, site, faults>>

\* siepe_start: t.start().
SiepeStartThread(j) ==
    /\ http[j] = "created"
    /\ http' = [http EXCEPT ![j] = "started"]
    /\ pc' = [pc EXCEPT ![j] = "run"]
    /\ UNCHANGED <<JOBS, JOB_LOCK, req, loc, call, fs, site, faults>>

\* siepe_start returning the id of a job it has not stored.
SiepeStartReturn_unstored(j) ==
    /\ http[j] \in {"idle", "started"}
    /\ http' = [http EXCEPT ![j] = "returned"]
    /\ UNCHANGED <<JOBS, JOB_LOCK, req, pc, loc, call, fs, site, faults>>

\* siepe_start: return {"job_id": job_id}.
SiepeStartReturn(j) ==
    /\ http[j] = "started"
    /\ http' = [http EXCEPT ![j] = "returned"]
    /\ UNCHANGED <<JOBS, JOB_LOCK, req, pc, loc, call, fs, site, faults>>

\* ------------------------------------------------------------- _run_job
At(j, where) == pc[j] = where /\ call[j] = None

\* _run_job: _update_job(job_id, {"status": "running"}).
RunJobBegin(j) ==
    /\ At(j, "run")
    /\ call' = [call EXCEPT ![j] = UpdateCall([status |-> "running"])]
    /\ pc' = [pc EXCEPT ![j] = "dispatch"]
    /\ UNCHANGED <<JOBS, JOB_LOCK, http, req, loc, fs, site, faults>>

\* _run_job: the branch on somente_esta_pagina, up to the call of
\* processar_url or the entry of processar_todos (defaults, resumo).
RunJobDispatch(j) ==
    /\ At(j, "dispatch")
    /\ IF IsSome(req[j].somente_esta_pagina)
       THEN /\ loc' = [loc EXCEPT ![j] =
                        [@ EXCEPT !.mode = "url",
                                  !.tgt = The(req[j].somente_esta_pagina),
                                  !.max_itens = req[j].max_itens_por_pagina]]
            /\ pc' = [pc EXCEPT ![j] = "url_fetch"]
       ELSE /\ loc' = [loc EXCEPT ![j] =
                        [@ EXCEPT !.mode = "todos",
                                  !.anos = OrDefault(req[j].anos, DefaultAnos),
                                  !.areas = OrDefault(req[j].areas, DefaultAreas),
                                  !.eventos = OrDefault(req[j].eventos, DefaultEventos),
                                  !.max_itens = req[j].max_itens_por_pagina,
                                  !.resumo = Some([total_paginas |-> 0, ok |-> 0,
                                                   falha |-> 0, detalhes |-> <<>>])]]
            /\ pc' = [pc EXCEPT ![j] = "todos_loop"]
    /\ UNCHANGED <<JOBS, JOB_LOCK, http, req, call, fs, site, faults>>

\* _run_job: _update_job(job_id, {"status": "done", "result": resumo}).
RunJobFinish(j) ==
    /\ At(j, "finish")
    /\ call' = [call EXCEPT ![j] =
                  UpdateCall([status |-> "done", result |-> loc[j].resumo])]
    /\ pc' = [pc EXCEPT ![j] = "end"]
    /\ UNCHANGED <<JOBS, JOB_LOCK, http, req, loc, fs, site, faults>>

\* ------------------------------------------------------------- processar_todos
\* The head of the three nested loops: the next (ano, area, evento), or the
\* return of resumo when the years are exhausted.
TodosLoop(j) ==
    /\ At(j, "todos_loop")
    /\ LET l == loc[j]
       IN IF l.ai > Len(l.anos)
          THEN /\ pc' = [pc EXCEPT ![j] = "finish"]
               /\ loc' = loc
          ELSE /\ pc' = [pc EXCEPT ![j] = "url_fetch"]
               /\ loc' = [loc EXCEPT ![j] =
                           [@ EXCEPT !.tgt = <<l.anos[l.ai], l.areas[l.ci],
                                               l.eventos[l.ei]>>,
                                     !.calls = Append(@, <<l.anos[l.ai],
                                                           l.areas[l.ci],
                                                           l.eventos[l.ei]>>)]]
    /\ UNCHANGED <<JOBS, JOB_LOCK, http, req, call, fs, site, faults>>

\* NextCombo with the loops over areas and eventos exchanged.
NextCombo_exchanged(l) ==
    IF l.ci < Len(l.areas) THEN [l EXCEPT !.ci = @ + 1]
    ELSE IF l.ei < Len(l.eventos) THEN [l EXCEPT !.ci = 1, !.ei = @ + 1]
    ELSE [l EXCEPT !.ei = 1, !.ci = 1, !.ai = @ + 1]

\* Advancing the nested loops: eventos innermost, then areas, then anos.
NextCombo(l) ==
    IF l.ei < Len(l.eventos) THEN [l EXCEPT !.ei = @ + 1]
    ELSE IF l.ci < Len(l.areas) THEN [l EXCEPT !.ei = 1, !.ci = @ + 1]
    ELSE [l EXCEPT !.ei = 1, !.ci = 1, !.ai = @ + 1]

\* resumo["total_paginas"] += 1 ... resumo["detalhes"].append(r).
Aggregate(resumo, r) ==
    [total_paginas |-> resumo.total_paginas + 1,
     ok |-> resumo.ok + r.ok,
     falha |-> resumo.falha + r.falha,
     detalhes |-> Append(resumo.detalhes, r)]

\* The return of processar_url to its caller: _run_job keeps the summary as
\* resumo, processar_todos aggregates it and moves to the next combination.
UrlRet(j) ==
    /\ At(j, "url_ret")
    /\ LET l == loc[j]
       IN IF l.mode = "url"
          THEN /\ loc' = [loc EXCEPT ![j] = [@ EXCEPT !.resumo = l.r]]
               /\ pc' = [pc EXCEPT ![j] = "finish"]
          ELSE /\ loc' = [loc EXCEPT ![j] =
                           NextCombo([l EXCEPT !.resumo =
                                        Some(Aggregate(The(l.resumo), The(l.r)))])]
               /\ pc' = [pc EXCEPT ![j] = "todos_loop"]
    /\ UNCHANGED <<JOBS, JOB_LOCK, http, req, call, fs, site, faults>>

\* ------------------------------------------------------------- processar_url
\* UrlFetchFail announcing the page before it reports the failure.
UrlFetchFail_started(j) ==
    /\ At(j, "url_fetch")
    /\ faults.page > 0
    /\ faults' = [faults EXCEPT !.page = @ - 1]
    /\ LET l == loc[j]
           start == Evt("page_start", l.tgt, 0, 0, "", "", 0, 0)
           evt == Evt("page_done", l.tgt, 0, 0, "", "fetch", 0, 0)
       IN /\ loc' = [loc EXCEPT ![j] =
                      [@ EXCEPT !.log = <<start, evt>>, !.sent = Sent(@, evt),
                                !.r = Some(PageSummary(l.tgt, 0, 0, 0, <<"fetch">>))]]
          /\ call' = [call EXCEPT ![j] = CbCall(evt)]
    /\ pc' = [pc EXCEPT ![j] = "url_ret"]
    /\ UNCHANGED <<JOBS, JOB_LOCK, http, req, fs, site>>

\* The listing cannot be fetched or parsed: one page_done with zero totals
\* and the error, and a summary that records it.
UrlFetchFail(j) ==
    /\ At(j, "url_fetch")
    /\ faults.page > 0
    /\ faults' = [faults EXCEPT !.page = @ - 1]
    /\ LET l == loc[j]
           evt == Evt("page_done", l.tgt, 0, 0, "", "fetch", 0, 0)
       IN /\ loc' = [loc EXCEPT ![j] =
                      [@ EXCEPT !.log = <<evt>>, !.sent = Sent(@, evt),
                                !.r = Some(PageSummary(l.tgt, 0, 0, 0, <<"fetch">>))]]
          /\ call' = [call EXCEPT ![j] = CbCall(evt)]
    /\ pc' = [pc EXCEPT ![j] = "url_ret"]
    /\ UNCHANGED <<JOBS, JOB_LOCK, http, req, fs, site>>

\* UrlPageStart counting the rows after the truncation (total = len(itens)
\* below the slice).
UrlPageStart_sliced(j) ==
    /\ At(j, "url_fetch")
    /\ LET l == loc[j]
           total == Truncate(site[l.tgt], l.max_itens)
           evt == Evt("page_start", l.tgt, 0, total, "", "", 0, 0)
       IN   /\ loc' = [loc EXCEPT ![j] =
                        [@ EXCEPT !.total = total,
                                  !.n = Truncate(total, l.max_itens),
                                  !.idx = 0, !.ok = 0, !.falha = 0,
                                  !.erros = <<>>, !.log = <<evt>>,
                                  !.fails = 0]]
            /\ call' = [call EXCEPT ![j] = CbCall(evt)]
    /\ pc' = [pc EXCEPT ![j] = "item_body_next"]
    /\ UNCHANGED <<JOBS, JOB_LOCK, http, req, fs, site, faults>>

\* The listing is parsed into its rows: truncation to max_itens, page_start with the
\* untruncated total, and the counters of the page.
UrlPageStart(j) ==
    /\ At(j, "url_fetch")
    /\ LET l == loc[j]
           total == site[l.tgt]
           evt == Evt("page_start", l.tgt, 0, total, "", "", 0, 0)
       IN   /\ loc' = [loc EXCEPT ![j] =
                        [@ EXCEPT !.total = total,
                                  !.n = Truncate(total, l.max_itens),
                                  !.idx = 0, !.ok = 0, !.falha = 0,
                                  !.erros = <<>>, !.log = <<evt>>,
                                  !.fails = 0]]
            /\ call' = [call EXCEPT ![j] = CbCall(evt)]
    /\ pc' = [pc EXCEPT ![j] = "item_body_next"]
    /\ UNCHANGED <<JOBS, JOB_LOCK, http, req, fs, site, faults>>

\* ItemStart numbering the items from 0 in its event (enumerate without
\* start=1).
ItemStart_zero(j) ==
    /\ At(j, "item_body_next")
    /\ loc[j].idx < loc[j].n
    /\ LET l == [loc[j] EXCEPT !.idx = @ + 1, !.orig_tmp = None,
                               !.merged_tmp = None]
           evt == Evt("item_start", l.tgt, l.idx - 1, l.total, "", "", 0, 0)
       IN /\ loc' = [loc EXCEPT ![j] = Emit(l, evt)]
          /\ call' = [call EXCEPT ![j] = CbCall(evt)]
    /\ pc' = [pc EXCEPT ![j] = "item_try"]
    /\ UNCHANGED <<JOBS, JOB_LOCK, http, req, fs, site, faults>>

\* The head of the item loop for the next item: item_start.
ItemStart(j) ==
    /\ At(j, "item_body_next")
    /\ loc[j].idx < loc[j].n
    /\ LET l == [loc[j] EXCEPT !.idx = @ + 1, !.orig_tmp = None,
                               !.merged_tmp = None]
           evt == Evt("item_start", l.tgt, l.idx, l.total, "", "", 0, 0)
       IN /\ loc' = [loc EXCEPT ![j] = Emit(l, evt)]
          /\ call' = [call EXCEPT ![j] = CbCall(evt)]
    /\ pc' = [pc EXCEPT ![j] = "item_try"]
    /\ UNCHANGED <<JOBS, JOB_LOCK, http, req, fs, site, faults>>

\* ItemResult with a failure that leaves the item loop (a break).
ItemResult_break(l, failed, o) ==
    IF failed
    THEN Emit([l EXCEPT !.falha = @ + 1, !.erros = Append(@, <<l.idx, o>>),
                        !.n = l.idx],
              Evt("item_done", l.tgt, l.idx, l.total, "error", o, 0, 0))
    ELSE Emit([l EXCEPT !.ok = @ + 1],
              Evt("item_done", l.tgt, l.idx, l.total, "ok", "", 0, 0))

\* The counters, the error list and the item_done event after the try body
\* of an item ended with `failed` (message o).
ItemResult(l, failed, o) ==
    IF failed
    THEN Emit([l EXCEPT !.falha = @ + 1, !.erros = Append(@, <<l.idx, o>>)],
              Evt("item_done", l.tgt, l.idx, l.total, "error", o, 0, 0))
    ELSE Emit([l EXCEPT !.ok = @ + 1],
              Evt("item_done", l.tgt, l.idx, l.total, "ok", "", 0, 0))

\* The try / except of one item: download, verification, merge and ingest
\* under an outcome the environment chooses, then item_done.
ItemBody(j) ==
    /\ At(j, "item_try")
    /\ \E o \in Outcomes :
         LET t == ItemTry(j, loc[j], o)
             l == ItemResult([loc[j] EXCEPT !.orig_tmp = t.orig_tmp,
                                            !.merged_tmp = t.merged_tmp,
                                            !.fails = IF o = "ok" THEN @
                                                      ELSE @ + 1],
                             t.failed, o)
         IN /\ o = "ok" \/ faults.item > 0
            /\ faults' = IF o = "ok" THEN faults
                          ELSE [faults EXCEPT !.item = @ - 1]
            /\ fs' = fs \cup t.files
            /\ loc' = [loc EXCEPT ![j] = l]
            /\ call' = [call EXCEPT ![j] = CbCall(l.log[Len(l.log)])]
    /\ pc' = [pc EXCEPT ![j] = "item_finally"]
    /\ UNCHANGED <<JOBS, JOB_LOCK, http, req, site>>

\* The finally block of one item.
ItemFinally(j) ==
    /\ At(j, "item_finally")
    /\ fs' = RemoveTmp(fs, loc[j])
    /\ pc' = [pc EXCEPT ![j] = "item_body_next"]
    /\ UNCHANGED <<JOBS, JOB_LOCK, http, req, loc, call, site, faults>>

\* After the last item: page_done with the page's counters, and the summary.
UrlPageDone(j) ==
    /\ At(j, "item_body_next")
    /\ loc[j].idx >= loc[j].n
    /\ LET l == loc[j]
           evt == Evt("page_done", l.tgt, 0, l.total, "", "", l.ok, l.falha)
       IN /\ loc' = [loc EXCEPT ![j] =
                      [Emit(l, evt) EXCEPT
                         !.r = Some(PageSummary(l.tgt, l.total, l.ok, l.falha,
                                                l.erros))]]
          /\ call' = [call EXCEPT ![j] = CbCall(evt)]
    /\ pc' = [pc EXCEPT ![j] = "url_ret"]
    /\ UNCHANGED <<JOBS, JOB_LOCK, http, req, fs, site, faults>>

\* An exception leaves processar_url: one raised outside its try blocks
\* (the statements between the items, lines 116-137 and 173-180).
UrlRaise(j) ==
    /\ At(j, "item_body_next")
    /\ faults.page > 0
    /\ faults' = [faults EXCEPT !.page = @ - 1]
    /\ pc' = [pc EXCEPT ![j] = "raised"]
    /\ loc' = [loc EXCEPT ![j] = [@ EXCEPT !.raised = Append(@, loc[j].tgt)]]
    /\ UNCHANGED <<JOBS, JOB_LOCK, http, req, call, fs, site>>

\* TodosExcept that lets the exception end the crawl: the loops are left
\* and resumo is returned as it stands.
TodosExcept_abort(j) ==
    /\ At(j, "raised")
    /\ loc[j].mode = "todos"
    /\ loc' = [loc EXCEPT ![j] = [@ EXCEPT !.ai = Len(loc[j].anos) + 1]]
    /\ pc' = [pc EXCEPT ![j] = "todos_loop"]
    /\ UNCHANGED <<JOBS, JOB_LOCK, http, req, call, fs, site, faults>>

\* processar_todos, except branch: a zero-totals page_done and a synthesized
\* summary stand for the page.
TodosExcept(j) ==
    /\ At(j, "raised")
    /\ loc[j].mode = "todos"
    /\ LET l == loc[j]
           evt == Evt("page_done", l.tgt, 0, 0, "", "fatal", 0, 0)
       IN /\ loc' = [loc EXCEPT ![j] =
                      [Emit(l, evt) EXCEPT
                         !.r = Some(PageSummary(l.tgt, 0, 0, 0, <<"fatal">>))]]
          /\ call' = [call EXCEPT ![j] = CbCall(evt)]
    /\ pc' = [pc EXCEPT ![j] = "url_ret"]
    /\ UNCHANGED <<JOBS, JOB_LOCK, http, req, fs, site, faults>>

\* RunJobExcept that swallows the exception without recording it.
RunJobExcept_swallow(j) ==
    /\ At(j, "raised")
    /\ loc[j].mode = "url"
    /\ pc' = [pc EXCEPT ![j] = "end"]
    /\ UNCHANGED <<JOBS, JOB_LOCK, http, req, loc, call, fs, site, faults>>

\* RunJobExcept that also runs after the done update (an exception raised
\* by a statement that follows it inside the try).
RunJobExcept_late(j) ==
    /\ \/ At(j, "raised") /\ loc[j].mode = "url"
       \/ At(j, "end") /\ j \in DOMAIN JOBS /\ JOBS[j].status = "done"
    /\ call' = [call EXCEPT ![j] =
                  UpdateCall([status |-> "error", error |-> Some("fatal")])]
    /\ pc' = [pc EXCEPT ![j] = "end"]
    /\ UNCHANGED <<JOBS, JOB_LOCK, http, req, loc, fs, site, faults>>

\* _run_job, except branch: the exception left the crawl call.
RunJobExcept(j) ==
    /\ At(j, "raised")
    /\ loc[j].mode = "url"
    /\ call' = [call EXCEPT ![j] =
                  UpdateCall([status |-> "error", error |-> Some("fatal")])]
    /\ pc' = [pc EXCEPT ![j] = "end"]
    /\ UNCHANGED <<JOBS, JOB_LOCK, http, req, loc, fs, site, faults>>

\* ------------------------------------------------------------- specification
\* A page target of the reduced catalogue.
Targets == (1..NumAnos) \X (1..NumAreas) \X (1..NumEventos)

\* The chunker, the cover page and the query are not part of a job step.
OthersIdle ==
    UNCHANGED <<chunkvars, metavars, queryvars, ingestvars, sourcevars,
                readvars>>

JobStep(j) ==
    \/ SiepeStartCreate(j) /\ OthersIdle
    \/ SiepeStartThread(j) /\ OthersIdle
    \/ SiepeStartReturn(j) /\ OthersIdle
    \/ RunJobBegin(j) /\ OthersIdle
    \/ RunJobDispatch(j) /\ OthersIdle
    \/ RunJobFinish(j) /\ OthersIdle
    \/ RunJobExcept(j) /\ OthersIdle
    \/ TodosLoop(j) /\ OthersIdle
    \/ TodosExcept(j) /\ OthersIdle
    \/ UrlRet(j) /\ OthersIdle
    \/ UrlFetchFail(j) /\ OthersIdle
    \/ UrlPageStart(j) /\ OthersIdle
    \/ ItemStart(j) /\ OthersIdle
    \/ ItemBody(j) /\ OthersIdle
    \/ ItemFinally(j) /\ OthersIdle
    \/ UrlPageDone(j) /\ OthersIdle
    \/ UrlRaise(j) /\ OthersIdle
    \/ UpdateJobPatch(j) /\ OthersIdle
    \/ UpdateJobStamp(j) /\ OthersIdle
    \/ ItemDoneCount(j) /\ OthersIdle
    \/ ItemDoneLast(j) /\ OthersIdle
    \/ ItemDoneStamp(j) /\ OthersIdle
    \/ PageDoneCount(j) /\ OthersIdle
    \/ PageDoneStamp(j) /\ OthersIdle

JobNext == \E j \in Jobs : JobStep(j)

\* Requests of the concurrent scenario: one page, at most one item of it.
SmallRequests ==
    { Request(<<>>, <<>>, <<>>, Some(1), Some(<<1, 1, 1>>)),
      Request(<<1>>, <<1>>, <<1>>, Some(1), None) }

\* Requests of the crawl scenario: one page with and without a limit, and
\* two listed years with at most two items of each page.
CrawlRequests ==
    { Request(<<>>, <<>>, <<>>, m, Some(<<1, 1, 1>>)) :
        m \in {None, Some(0), Some(1), Some(2)} }
    \cup { Request(<<2, 1>>, <<1>>, <<1>>, Some(2), None) }

\* The crawl of the whole default catalogue, without items.
DefaultCrawl == Request(<<>>, <<>>, <<>>, Some(0), None)

\* The sites: every listing holds the same number of rows.
Sites == { [t \in Targets |-> k] : k \in 0..MaxItens }

JobInit(requests, clients, sites) ==
    /\ JOBS = <<>>
    /\ JOB_LOCK = 0
    /\ http = [j \in Jobs |-> IF j \in clients THEN "idle" ELSE "off"]
    /\ \E f \in [clients -> requests] :
          req = [j \in Jobs |-> IF j \in clients THEN f[j]
                                ELSE Request(<<>>, <<>>, <<>>, None, None)]
    /\ pc = [j \in Jobs |-> "off"]
    /\ loc = [j \in Jobs |-> LocInit]
    /\ call = [j \in Jobs |-> None]
    /\ fs = {}
    /\ site \in sites
    /\ faults = [page |-> MaxPageFaults, item |-> MaxItemFaults]

\* ------------------------------------------------------------- chunk_text
\* The concatenation of a list of token sequences (" ".join followed by
\* split()).
RECURSIVE Join(_)
Join(list) == IF list = <<>> THEN <<>> ELSE Head(list) \o Join(Tail(list))

\* paragraphs = [p.strip() for p in text.split("\n\n") if p.strip()]
Paragraphs(t) == SelectSeq(t, LAMBDA p : p # <<>>)

\* toks[i:i+n] for a 0-based i (Python slicing clips at the end).
Slice(toks, i, n) == SubSeq(toks, i + 1, Min(i + n, Len(toks)))

\* Windows advancing by the window length (the overlap is ignored).
RECURSIVE Windows_disjoint(_, _, _, _)
Windows_disjoint(toks, i, step, n) ==
    IF i >= Len(toks) THEN <<>>
    ELSE <<Slice(toks, i, n)>> \o Windows_disjoint(toks, i + n, step, n)

\* The windows chunk_text appends for range(i, L, step).
RECURSIVE Windows(_, _, _, _)
Windows(toks, i, step, n) ==
    IF i >= Len(toks) THEN <<>>
    ELSE <<Slice(toks, i, n)>> \o Windows(toks, i + step, step, n)

\* last[-k:] if len(last) >= k else last (last[-0:] is the whole list).
Overlap(last, k) ==
    IF Len(last) >= k
    THEN (IF k = 0 THEN last ELSE SubSeq(last, Len(last) - k + 1, Len(last)))
    ELSE last

ChunkPara == Paragraphs(text)[ip]

\* An oversized paragraph: sliding windows, and the buffer is reset.
ChunkWindows ==
    /\ cpc = "loop" /\ ip <= Len(Paragraphs(text))
    /\ Len(ChunkPara) > max_tokens
    /\ LET w == Windows(ChunkPara, 0, max_tokens - overlap_tokens, max_tokens)
       IN /\ chunks' = chunks \o w
          /\ kinds' = kinds \o [i \in 1..Len(w) |->
                                 [kind |-> "window",
                                  ov |-> IF i = 1 THEN 0
                                         ELSE Min(overlap_tokens, Len(w[i]))]]
    /\ current' = <<>>
    /\ cur_len' = 0
    /\ cur_seed' = None
    /\ cur_paras' = <<>>
    /\ ip' = ip + 1
    /\ UNCHANGED <<text, max_tokens, overlap_tokens, cpc, earlier>>

\* A paragraph that fits in the buffer.
ChunkAppend ==
    /\ cpc = "loop" /\ ip <= Len(Paragraphs(text))
    /\ Len(ChunkPara) <= max_tokens
    /\ cur_len + Len(ChunkPara) <= max_tokens
    /\ current' = Append(current, ChunkPara)
    /\ cur_len' = cur_len + Len(ChunkPara)
    /\ cur_paras' = Append(cur_paras, ChunkPara)
    /\ ip' = ip + 1
    /\ UNCHANGED <<text, max_tokens, overlap_tokens, chunks, cpc, cur_seed,
                   kinds, earlier>>

\* A paragraph that does not fit: the buffer is flushed and a new one starts
\* with the overlap of the last chunk.
ChunkFlush ==
    /\ cpc = "loop" /\ ip <= Len(Paragraphs(text))
    /\ Len(ChunkPara) <= max_tokens
    /\ cur_len + Len(ChunkPara) > max_tokens
    /\ LET flushed == IF current # <<>> THEN Append(chunks, Join(current))
                      ELSE chunks
           overlap == IF flushed # <<>>
                      THEN Overlap(flushed[Len(flushed)], overlap_tokens)
                      ELSE <<>>
       IN /\ chunks' = flushed
          /\ kinds' = IF current # <<>>
                      THEN Append(kinds, [kind |-> "buffer",
                                          ov |-> IF IsSome(cur_seed)
                                                 THEN The(cur_seed).ov ELSE 0])
                      ELSE kinds
          /\ current' = IF overlap # <<>> THEN <<overlap, ChunkPara>>
                        ELSE <<ChunkPara>>
          /\ cur_len' = Len(overlap) + Len(ChunkPara)
          /\ cur_seed' = Some([prev |-> IF flushed # <<>>
                                        THEN flushed[Len(flushed)] ELSE <<>>,
                               ov |-> Len(overlap)])
    /\ cur_paras' = <<ChunkPara>>
    /\ ip' = ip + 1
    /\ UNCHANGED <<text, max_tokens, overlap_tokens, cpc, earlier>>

\* After the last paragraph: the buffer is flushed and chunks returned.
ChunkReturn ==
    /\ cpc = "loop" /\ ip > Len(Paragraphs(text))
    /\ chunks' = IF current # <<>> THEN Append(chunks, Join(current))
                 ELSE chunks
    /\ kinds' = IF current # <<>>
                THEN Append(kinds, [kind |-> "buffer",
                                    ov |-> IF IsSome(cur_seed)
                                           THEN The(cur_seed).ov ELSE 0])
                ELSE kinds
    /\ cpc' = "done"
    /\ UNCHANGED <<text, max_tokens, overlap_tokens, current, cur_len, ip,
                   cur_seed, cur_paras, earlier>>

\* chunk_text is called again with the same arguments: its locals are
\* created anew.
ChunkAgain ==
    /\ cpc = "done" /\ earlier = None
    /\ earlier' = Some(chunks)
    /\ chunks' = <<>>
    /\ current' = <<>>
    /\ cur_len' = 0
    /\ ip' = 1
    /\ cpc' = "loop"
    /\ cur_seed' = None
    /\ cur_paras' = <<>>
    /\ kinds' = <<>>
    /\ UNCHANGED <<text, max_tokens, overlap_tokens>>

\* A raw paragraph of n tokens at position p of the text: its tokens are
\* told apart by position.
RawPara(p, n) == [k \in 1..n |-> <<p, k>>]

\* The texts: up to MaxParas raw paragraphs of 0..MaxParaLen tokens.
Texts ==
    UNION { { [p \in 1..m |-> RawPara(p, lens[p])] :
                lens \in [1..m -> 0..MaxParaLen] } : m \in 0..MaxParas }

ChunkInit(texts) ==
    /\ text \in texts
    /\ max_tokens \in 1..MaxTok
    /\ overlap_tokens \in 0..(max_tokens - 1)
    /\ chunks = <<>>
    /\ current = <<>>
    /\ cur_len = 0
    /\ ip = 1
    /\ cpc = IF texts = {<<>>} THEN "off" ELSE "loop"
    /\ cur_seed = None
    /\ cur_paras = <<>>
    /\ kinds = <<>>
    /\ earlier = None

\* ------------------------------------------------------------- cover page
\* A text is a sequence of atoms <<kind, n>>: a field label, a plain word,
\* a space, a newline, a year of four digits, the name of an event or of
\* an area, an http(s) address.  A word, a name, a year or an address holds
\* no white space and no label inside it.
SP == <<" ", 0>>
NL == <<"\n", 0>>
Whitespace == {SP, NL}

Keys == {"apresentador", "titulo", "autores", "orientador", "evento", "area",
         "ano", "link"}

\* The label each pattern of META_FIELDS starts with, and what its group
\* captures: ".+", "\d{4}" or "http[s]?://\S+".
META_FIELDS ==
    [apresentador |-> [label |-> <<"Apresentador(a):", 0>>, group |-> ".+"],
     titulo       |-> [label |-> <<"Título:", 0>>, group |-> ".+"],
     autores      |-> [label |-> <<"Autores:", 0>>, group |-> ".+"],
     orientador   |-> [label |-> <<"Orientador(a):", 0>>, group |-> ".+"],
     evento       |-> [label |-> <<"Evento:", 0>>, group |-> ".+"],
     area         |-> [label |-> <<"Área:", 0>>, group |-> ".+"],
     ano          |-> [label |-> <<"Ano:", 0>>, group |-> "\\d{4}"],
     link         |-> [label |-> <<"Link para PDF:", 0>>,
                       group |-> "http[s]?://\\S+"]]

Labels == { META_FIELDS[k].label : k \in Keys }

IsYear(atom) == atom[1] = "ano"
IsUrl(atom) == atom[1] \in {"http://", "https://"}

\* The number of atoms of t from position i on that are in (in = TRUE) or
\* not in (in = FALSE) the set S.
RECURSIVE Run(_, _, _, _)
Run(t, i, S, in) ==
    IF i > Len(t) \/ ((t[i] \in S) # in) THEN 0
    ELSE 1 + Run(t, i + 1, S, in)

\* str.strip()
Strip(t) ==
    LET lead == Run(t, 1, Whitespace, TRUE)
        rest == SubSeq(t, lead + 1, Len(t))
        RECURSIVE Trail(_)
        Trail(n) == IF n = 0 \/ rest[n] \notin Whitespace THEN n
                    ELSE Trail(n - 1)
    IN SubSeq(rest, 1, Trail(Len(rest)))

\* \b before the atom at i: the text starts there, or the atom before it
\* ends in a character that is not a word character.
WordBoundary(t, i) == i = 1 \/ t[i - 1] \in Whitespace \cup Labels

\* pattern.match at position i: the label, \s* (greedy, giving back white
\* space when the group cannot start after it), then the group.  Some(the
\* group) or None.
MatchAt(t, key, i) ==
    LET f == META_FIELDS[key]
        k == Run(t, i + 1, Whitespace, TRUE)
        end == i + 1 + k
        \* the starts of ".+" after j of the k white space atoms
        starts == { j \in 0..k : /\ i + 1 + j <= Len(t)
                                /\ t[i + 1 + j] # NL }
        from == i + 1 + CHOOSE j \in starts : \A h \in starts : h <= j
    IN IF t[i] # f.label \/ (key = "area" /\ ~WordBoundary(t, i)) THEN None
       ELSE IF f.group = ".+"
       THEN (IF starts = {} THEN None
             ELSE Some(SubSeq(t, from, from + Run(t, from, {NL}, FALSE) - 1)))
       ELSE IF f.group = "\\d{4}"
       THEN (IF end <= Len(t) /\ IsYear(t[end])
             THEN Some(<<t[end]>>) ELSE None)
       ELSE (IF end <= Len(t) /\ IsUrl(t[end])
             THEN Some(SubSeq(t, end,
                              end + Run(t, end, Whitespace, FALSE) - 1))
             ELSE None)

\* pattern.search: the match at the first position that has one.
Search(t, key) ==
    LET hits == { i \in 1..Len(t) : IsSome(MatchAt(t, key, i)) }
    IN IF hits = {} THEN None
       ELSE MatchAt(t, key, CHOOSE i \in hits : \A h \in hits : i <= h)

\* meta[key] = m.group(1).strip() for the patterns that match.
extract_metadata(first_page_text) ==
    [key \in Keys |->
        LET m == Search(first_page_text, key)
        IN IF IsSome(m) THEN Some(Strip(The(m))) ELSE None]

\* f"Label: {value}\n"
Line(key, value) == <<META_FIELDS[key].label, SP>> \o value \o <<NL>>

\* The text criar_pagina_info_fitz puts on the cover page.
CoverText(f) ==
    Line("apresentador", f.apresentador) \o Line("titulo", f.titulo)
        \o Line("autores", f.autores) \o Line("orientador", f.orientador)
        \o Line("evento", f.evento) \o Line("area", f.area)
        \o Line("ano", f.ano) \o Line("link", f.link)

criar_pagina_info_fitz ==
    /\ mpc = "render"
    /\ texto' = CoverText(fields)
    /\ mpc' = "extract"
    /\ UNCHANGED <<fields, meta>>

ExtractMetadata ==
    /\ mpc = "extract"
    /\ meta' = extract_metadata(texto)
    /\ mpc' = "done"
    /\ UNCHANGED <<fields, texto>>

\* limpar_texto: the tokens of a scraped cell joined by single spaces.
RECURSIVE limpar_texto(_)
limpar_texto(toks) ==
    IF Len(toks) <= 1 THEN toks
    ELSE <<Head(toks), SP>> \o limpar_texto(Tail(toks))

\* The tokens of a scraped cell: plain words and words that read like a
\* field label.
ValueAtoms == { <<"w", n>> : n \in 1..NumWords } \cup Labels

\* The values of a scraped cell: up to MaxValueLen tokens, none included.
FreeValues ==
    UNION { { limpar_texto(v) : v \in [1..n -> ValueAtoms] } :
              n \in 0..MaxValueLen }

ScrapedKeys == {"apresentador", "titulo", "autores", "orientador"}

\* The cover page of an item of the listing tgt: one scraped cell holds any
\* value, the others a plain word; the event, the area and the year are
\* those of the listing.
Items ==
    { [k \in Keys |->
         CASE k = f -> v
           [] k \in ScrapedKeys \ {f} -> <<<<"w", 1>>>>
           [] k = "evento" -> <<<<"evento", tgt[3]>>>>
           [] k = "area" -> <<<<"area", tgt[2]>>>>
           [] k = "ano" -> <<<<"ano", tgt[1]>>>>
           [] k = "link" -> <<<<scheme, 1>>>>] :
      f \in ScrapedKeys, v \in FreeValues, tgt \in Targets,
      scheme \in {"http://", "https://"} }

MetaInit(items) ==
    /\ fields \in items
    /\ texto = <<>>
    /\ meta = [k \in Keys |-> None]
    /\ mpc = IF items = {[k \in Keys |-> <<>>]} THEN "off" ELSE "render"

\* The atoms of the first page of any document: labels, white space, plain
\* words, a year, an address.
PageAtoms ==
    Labels \cup Whitespace \cup { <<"w", n>> : n \in 1..NumWords }
        \cup {<<"ano", 1>>, <<"http://", 1>>}

PageTexts == UNION { [1..n -> PageAtoms] : n \in 0..MaxTextLen }

\* extract_metadata called on the first page of a document that was not
\* rendered by criar_pagina_info_fitz.
PageInit(texts) ==
    /\ fields = [k \in Keys |-> <<>>]
    /\ texto \in texts
    /\ meta = [k \in Keys |-> None]
    /\ mpc = "extract"

\* ------------------------------------------------------------- ingest_pdf
\* The document is opened, the metadata of its first page extracted (the
\* title stripped once more) and doc_id drawn; chunk_text is entered.
IngestOpen ==
    /\ ipc = "open"
    /\ meta' = [k \in Keys |->
                 IF k = "titulo" /\ IsSome(extract_metadata(texto)[k])
                 THEN Some(Strip(The(extract_metadata(texto)[k])))
                 ELSE extract_metadata(texto)[k]]
    /\ mpc' = "done"
    /\ doc_id' = Some(uuid)
    /\ uuid' = uuid + 1
    /\ ipc' = "chunk"
    /\ UNCHANGED <<fields, texto, points, writes>>

\* fitz.open, load_page or get_text raises: ingest_pdf is left before it has
\* a doc_id.
IngestOpenFail ==
    /\ ipc = "open"
    /\ ipc' = "raised"
    /\ UNCHANGED <<doc_id, points, writes, uuid, metavars>>

\* An exception leaves chunk_text.
IngestChunkFail ==
    /\ ipc = "chunk" /\ cpc = "loop"
    /\ ipc' = "raised"
    /\ UNCHANGED <<doc_id, points, writes, uuid, metavars>>

\* chunk_text(full_text, ...) is running.
InChunkText == ipc = "chunk" /\ cpc = "loop"

Point(pid, idx, ch) ==
    [id |-> pid,
     payload |-> [meta |-> meta, doc_id |-> doc_id, chunk_index |-> idx,
                  content |-> ch]]

\* IngestPoint writing each point to the store as soon as it is built.
IngestPoint_eager ==
    /\ ipc = "chunk" /\ cpc = "done"
    /\ Len(points) < Len(chunks)
    /\ LET idx == Len(points)
           pt == Point(uuid, idx, chunks[idx + 1])
       IN /\ points' = Append(points, pt)
          /\ writes' = Append(writes, <<pt>>)
    /\ uuid' = uuid + 1
    /\ UNCHANGED <<ipc, doc_id, metavars>>

\* IngestPoint using doc_id as the id of the point.
IngestPoint_docid ==
    /\ ipc = "chunk" /\ cpc = "done"
    /\ Len(points) < Len(chunks)
    /\ LET idx == Len(points)
       IN points' = Append(points, Point(The(doc_id), idx, chunks[idx + 1]))
    /\ UNCHANGED <<ipc, doc_id, writes, uuid, metavars>>

\* One turn of the loop over enumerate(chunks): the chunk is embedded and
\* its point, with a fresh id, appended.
IngestPoint ==
    /\ ipc = "chunk" /\ cpc = "done"
    /\ Len(points) < Len(chunks)
    /\ LET idx == Len(points)
       IN points' = Append(points, Point(uuid, idx, chunks[idx + 1]))
    /\ uuid' = uuid + 1
    /\ UNCHANGED <<ipc, doc_id, writes, metavars>>

\* embed_text raises: ingest_pdf is left with nothing written.
IngestEmbedFail ==
    /\ ipc = "chunk" /\ cpc = "done"
    /\ Len(points) < Len(chunks)
    /\ ipc' = "raised"
    /\ UNCHANGED <<doc_id, points, writes, uuid, metavars>>

\* qdrant.upsert(points=points): accepted, or it raises.
IngestUpsert ==
    /\ ipc = "chunk" /\ cpc = "done"
    /\ Len(points) = Len(chunks)
    /\ writes' = Append(writes, points)
    /\ ipc' \in {"done", "raised"}
    /\ UNCHANGED <<doc_id, points, uuid, metavars>>

\* A first page without labels, and the cover page of an item.
IngestPages ==
    { <<>>,
      CoverText([k \in Keys |->
                   CASE k \in ScrapedKeys -> <<<<"w", 1>>>>
                     [] k = "link" -> <<<<"http://", 1>>>>
                     [] OTHER -> <<<<k, 1>>>>]) }

IngestInit(on) ==
    /\ ipc = IF on THEN "open" ELSE "off"
    /\ doc_id = None
    /\ points = <<>>
    /\ writes = <<>>
    /\ uuid = 1

\* ------------------------------------------------------------- query
\* A question is a sequence of atoms: spaces and plain words.
Questions ==
    UNION { [1..n -> {SP, <<"w", 1>>}] : n \in 0..MaxQLen }

FilterKeys == {"ano", "area"}

\* The dicts of filters: some of the keys, each with a value.
FilterMaps ==
    UNION { [S -> 1..NumFilterValues] : S \in SUBSET FilterKeys }

QueryRequests ==
    [q : Questions, top_k : 1..MaxTopK,
     filters : {None} \cup { Some(m) : m \in FilterMaps }]

Dict(m) == [kind |-> "dict", map |-> m]
Null == [kind |-> "null", map |-> <<>>]

Expected == {"filters", "query_refinada"}

\* What the completion call of extract_filters_and_refine_query can come to:
\* the request fails, the text is not JSON, or it starts with a JSON value.
\* names are the keys of an object, the elements of an array, the substrings
\* of a string (what Python's "in" looks at).
Json(type, names, filters, query) ==
    [type |-> type, names |-> names, filters |-> filters, query |-> query]

LLMOutcomes(q) ==
    { Json(t, {}, Null, <<>>) : t \in {"network", "not_json", "number"} }
    \cup { Json(t, S, Null, <<>>) :
             t \in {"array", "string"}, S \in SUBSET Expected }
    \cup { Json("object", S, Null, <<>>) : S \in (SUBSET Expected) \ {Expected} }
    \cup { Json("object", Expected, f, r) :
             f \in {Null} \cup { Dict(m) : m \in FilterMaps },
             r \in {q, <<<<"w", 2>>>>} }

\* The dict returned by the except branch.
Fallback(original_query) ==
    Json("object", Expected, Dict(<<>>), original_query)

\* The try block: any exception (the request, raw_decode, "in" on a number,
\* the ValueError for missing keys) ends in the except branch; a parsed value
\* in which both names are found is returned as it is.
extract_filters_and_refine_query(original_query, o) ==
    IF o.type \in {"network", "not_json", "number"}
    THEN Fallback(original_query)
    ELSE IF "filters" \in o.names /\ "query_refinada" \in o.names
    THEN o
    ELSE Fallback(original_query)

QLocInit ==
    [q |-> <<>>, extraction_result |-> None, query_text |-> <<>>,
     extracted_filters |-> Null, final_filters |-> <<>>,
     query_filter |-> None, search_args |-> None, hits |-> None,
     llm_outcome |-> None]

Respond(r) == /\ qres' = Some(r)
              /\ qpc' = "done"

HTTPError(status, detail) ==
    [status |-> status, detail |-> detail, answer |-> "", sources |-> 0]

Answer(answer, sources) ==
    [status |-> 200, detail |-> "", answer |-> answer, sources |-> sources]

\* QueryStart without strip(): only the empty string is refused.
QueryStart_nostrip ==
    /\ qpc = "start"
    /\ LET q == qreq.q
       IN IF q = <<>>
          THEN /\ Respond(HTTPError(422, "Query vazia."))
               /\ UNCHANGED qloc
          ELSE /\ qloc' = [qloc EXCEPT !.q = q]
               /\ qpc' = "extract"
               /\ UNCHANGED qres
    /\ UNCHANGED <<qreq, qcalls>>

\* q = (request.q or "").strip(); an empty q is refused.
QueryStart ==
    /\ qpc = "start"
    /\ LET q == Strip(qreq.q)
       IN IF q = <<>>
          THEN /\ Respond(HTTPError(422, "Query vazia."))
               /\ UNCHANGED qloc
          ELSE /\ qloc' = [qloc EXCEPT !.q = q]
               /\ qpc' = "extract"
               /\ UNCHANGED qres
    /\ UNCHANGED <<qreq, qcalls>>

\* extraction_result = extract_filters_and_refine_query(q)
QueryExtract ==
    /\ qpc = "extract"
    /\ \E o \in LLMOutcomes(qloc.q) :
          qloc' = [qloc EXCEPT !.extraction_result =
                      Some(extract_filters_and_refine_query(qloc.q, o)),
                               !.llm_outcome = Some(o)]
    /\ qcalls' = Append(qcalls, [to |-> "completion", what |-> "filters"])
    /\ qpc' = "index"
    /\ UNCHANGED <<qreq, qres>>

\* extraction_result["query_refinada"], extraction_result["filters"]: a
\* TypeError when the result is a list or a string.
QueryIndex ==
    /\ qpc = "index"
    /\ LET r == The(qloc.extraction_result)
       IN IF r.type # "object"
          THEN /\ Respond(HTTPError(500, "TypeError"))
               /\ UNCHANGED qloc
          ELSE /\ qloc' = [qloc EXCEPT !.query_text = r.query,
                                       !.extracted_filters = r.filters]
               /\ qpc' = "embed"
               /\ UNCHANGED qres
    /\ UNCHANGED <<qreq, qcalls>>

\* query_vector = embed_text(query_text_for_embedding, is_query=True)
QueryEmbed ==
    /\ qpc = "embed"
    /\ qcalls' = Append(qcalls, [to |-> "embedding", what |-> "query"])
    /\ qpc' = "merge"
    /\ UNCHANGED <<qreq, qloc, qres>>

\* QueryMerge with the update the other way round: the manual value wins.
QueryMerge_manual ==
    /\ qpc = "merge"
    /\ LET manual == IF IsSome(qreq.filters) THEN The(qreq.filters) ELSE <<>>
           final == DictUpdate(qloc.extracted_filters.map, manual)
       IN IF qloc.extracted_filters.kind # "dict"
          THEN /\ Respond(HTTPError(500, "TypeError"))
               /\ UNCHANGED qloc
          ELSE /\ qloc' = [qloc EXCEPT
                             !.final_filters = final,
                             !.query_filter = IF DOMAIN final # {}
                                              THEN Some(final) ELSE None]
               /\ qpc' = "search"
               /\ UNCHANGED qres
    /\ UNCHANGED <<qreq, qcalls>>

\* final_filters = request.filters or {}; final_filters.update(extracted);
\* the Filter of its items, None when there is none.
QueryMerge ==
    /\ qpc = "merge"
    /\ LET manual == IF IsSome(qreq.filters) THEN The(qreq.filters) ELSE <<>>
           final == DictUpdate(manual, qloc.extracted_filters.map)
       IN IF qloc.extracted_filters.kind # "dict"
          THEN /\ Respond(HTTPError(500, "TypeError"))
               /\ UNCHANGED qloc
          ELSE /\ qloc' = [qloc EXCEPT
                             !.final_filters = final,
                             !.query_filter = IF DOMAIN final # {}
                                              THEN Some(final) ELSE None]
               /\ qpc' = "search"
               /\ UNCHANGED qres
    /\ UNCHANGED <<qreq, qcalls>>

\* hits = qdrant.search(..., query_filter, limit=max(3, top_k))
QuerySearch ==
    /\ qpc = "search"
    /\ LET limit == IF qreq.top_k > 3 THEN qreq.top_k ELSE 3
           args == Some([query_filter |-> qloc.query_filter,
                         limit |-> limit])
       IN /\ qcalls' = Append(qcalls, [to |-> "vector_store",
                                       what |-> "search"])
          /\ \/ \E n \in 0..Min(MaxHits, limit) :
                   /\ qloc' = [qloc EXCEPT !.search_args = args,
                                           !.hits = Some(n)]
                   /\ qpc' = "hits"
                   /\ UNCHANGED qres
             \/ /\ Respond(HTTPError(500, "search"))
                /\ qloc' = [qloc EXCEPT !.search_args = args]
    /\ UNCHANGED qreq

\* if not hits: the fixed answer.
QueryNoHits ==
    /\ qpc = "hits"
    /\ The(qloc.hits) = 0
    /\ Respond(Answer("Desculpe, não encontrei conteúdo relevante.", 0))
    /\ UNCHANGED <<qreq, qloc, qcalls>>

\* QueryGenerate without the early return for an empty list of hits.
QueryGenerate_always ==
    /\ qpc = "hits"
    /\ qcalls' = Append(qcalls, [to |-> "completion", what |-> "answer"])
    /\ \/ Respond(Answer("answer_text", The(qloc.hits)))
       \/ Respond(HTTPError(500, "Erro na geração da resposta."))
    /\ UNCHANGED <<qreq, qloc>>

\* The prompt of the hits is sent to the completion service; its failure is
\* answered with a 500.
QueryGenerate ==
    /\ qpc = "hits"
    /\ The(qloc.hits) > 0
    /\ qcalls' = Append(qcalls, [to |-> "completion", what |-> "answer"])
    /\ \/ Respond(Answer("answer_text", The(qloc.hits)))
       \/ Respond(HTTPError(500, "Erro na geração da resposta."))
    /\ UNCHANGED <<qreq, qloc>>

QueryInit(requests) ==
    /\ qreq \in requests
    /\ qpc = IF requests = {[q |-> <<>>, top_k |-> 1, filters |-> None]}
             THEN "off" ELSE "start"
    /\ qloc = QLocInit
    /\ qcalls = <<>>
    /\ qres = None

\* ------------------------------------------------------------- sources
MAX_CHARS_PER_CHUNK == 2500
SnippetChars == 200

\* s[:k]
Prefix(str, k) == SubSeq(str, 1, Min(k, Len(str)))

\* A string of n characters.
Chars(n) == [i \in 1..n |-> "c"]

\* content = (payload.get("content", "") or "")[:MAX_CHARS_PER_CHUNK]
Content(p) == Prefix(IF IsSome(p) THEN The(p) ELSE <<>>, MAX_CHARS_PER_CHUNK)

\* snippet = content[:200] + ("..." if len(content) > 200 else "")
Snippet(content) ==
    Prefix(content, SnippetChars)
        \o (IF Len(content) > SnippetChars THEN <<".", ".", ".">> ELSE <<>>)

\* The body of the loop over the hits, for one hit.
QuerySource ==
    /\ spc = "hit"
    /\ snippet' = Some(Snippet(Content(payload)))
    /\ spc' = "done"
    /\ UNCHANGED payload

\* The stored contents: every length up to MaxContent and the lengths around
\* MAX_CHARS_PER_CHUNK.
Contents ==
    {None} \cup { Some(Chars(n)) :
                    n \in (0..MaxContent) \cup
                          ((MAX_CHARS_PER_CHUNK - 1)..(MAX_CHARS_PER_CHUNK + 1)) }

SourceInit(on) ==
    /\ payload \in (IF on THEN Contents ELSE {None})
    /\ snippet = None
    /\ spc = IF on THEN "hit" ELSE "off"

\* ------------------------------------------------------------- siepe_status
\* The fields of the response, in the order in which their values are read:
\* the dict literal of siepe_status evaluates st.get(...) field by field;
\* counters and pages are the dicts the callback updates in place, so their
\* values are read when the response is encoded, after the handler returned.
StatusFields ==
    <<"status", "created_at", "updated_at", "current_page", "last_item",
      "last_ok_item", "error", "counters", "pages">>

StatusNames == { StatusFields[i] : i \in 1..Len(StatusFields) }

\* The response for a snapshot read at once.
Response(st) == [f \in StatusNames |-> st[f]]

Unread == <<"unread">>

\* st = JOBS.get(job_id); 404 when there is no such job.
StatusGet ==
    /\ rd.pc = "get"
    /\ IF rd.job \in DOMAIN JOBS
       THEN rd' = [rd EXCEPT !.pc = "field", !.at = 1,
                             !.res = Some([f \in StatusNames |-> Unread])]
       ELSE rd' = [rd EXCEPT !.pc = "done", !.res = None]
    /\ UNCHANGED seen

\* The next field of the response is read from the stored dict, without the
\* lock.
StatusField ==
    /\ rd.pc = "field"
    /\ LET f == StatusFields[rd.at]
           res == [The(rd.res) EXCEPT ![f] = JOBS[rd.job][f]]
       IN rd' = [rd EXCEPT !.res = Some(res),
                           !.at = IF rd.at < Len(StatusFields) THEN @ + 1 ELSE @,
                           !.pc = IF rd.at < Len(StatusFields) THEN "field"
                                  ELSE "done"]
    /\ UNCHANGED seen

\* The snapshot of the requested job after a step, when the step leaves the
\* lock free.
Quiet(store) ==
    IF rd.job \in DOMAIN store THEN Some(Response(store[rd.job])) ELSE None

\* A step of a job thread as the request sees it: a snapshot that exists with
\* the lock free is recorded; before the request starts only the latest one
\* is kept.
Observed ==
    /\ rd' = rd
    /\ seen' = IF JOB_LOCK' # 0 THEN seen
               ELSE IF rd.pc \in {"get", "off"} THEN {Quiet(JOBS')}
               ELSE seen \cup {Quiet(JOBS')}

ReadInit(on) ==
    /\ rd = [job |-> 1, pc |-> IF on THEN "get" ELSE "off", at |-> 1,
             res |-> None]
    /\ seen = {None}

\* ------------------------------------------------------------- specifications
SourceOff == SourceInit(FALSE)

ReadOff == ReadInit(FALSE)

ChunkOff == ChunkInit({<<>>}) /\ max_tokens = 1

JobOff == JobInit({}, {}, {[t \in Targets |-> 0]})

MetaOff == MetaInit({[k \in Keys |-> <<>>]})

QueryOff == QueryInit({[q |-> <<>>, top_k |-> 1, filters |-> None]})

IngestOff == IngestInit(FALSE)

vars ==
    <<jobvars, chunkvars, metavars, queryvars, ingestvars, sourcevars, readvars>>

Next == JobNext

\* One job, submitted over HTTP, crawling a site: pages of listings of any
\* length, or the default catalogue on full listings.
Init ==
    /\ \/ JobInit(CrawlRequests, {1}, Sites)
       \/ JobInit({DefaultCrawl}, {1}, {[t \in Targets |-> MaxItens]})
    /\ ChunkOff /\ MetaOff /\ QueryOff /\ IngestOff /\ SourceOff /\ ReadOff

Spec == Init /\ [][Next]_vars

\* Concurrent jobs on a site whose listings hold one row.
InitJobs ==
    /\ JobInit(SmallRequests, Jobs, {[t \in Targets |-> 1]})
    /\ ChunkOff /\ MetaOff /\ QueryOff /\ IngestOff /\ SourceOff /\ ReadOff

SpecJobs == InitJobs /\ [][Next]_vars

\* The request handler and the job thread of every job are scheduled again
\* and again, also when they wait for the lock, and every external call
\* returns or fails.
Fairness == \A j \in Jobs : SF_vars(JobStep(j))

\* One job crawling full listings: at most two items of a single page, or
\* at most one item of each page of two years.
InitFair ==
    /\ JobInit({ Request(<<>>, <<>>, <<>>, Some(2), Some(<<1, 1, 1>>)),
                 Request(<<2, 1>>, <<1>>, <<1>>, Some(1), None) },
               {1}, {[t \in Targets |-> MaxItens]})
    /\ ChunkOff /\ MetaOff /\ QueryOff /\ IngestOff /\ SourceOff /\ ReadOff

SpecFair == InitFair /\ [][Next]_vars /\ Fairness

SpecJobsFair == InitJobs /\ [][Next]_vars /\ Fairness

\* chunk_text on every text, max_tokens and overlap_tokens of the bounds.
InitChunk ==
    JobOff /\ ChunkInit(Texts) /\ MetaOff /\ QueryOff /\ IngestOff /\ SourceOff /\ ReadOff

NextChunk ==
    \/ ChunkWindows /\ UNCHANGED <<jobvars, metavars, queryvars, sourcevars, readvars, ingestvars>>
    \/ ChunkAppend /\ UNCHANGED <<jobvars, metavars, queryvars, sourcevars, readvars, ingestvars>>
    \/ ChunkFlush /\ UNCHANGED <<jobvars, metavars, queryvars, sourcevars, readvars, ingestvars>>
    \/ ChunkReturn /\ UNCHANGED <<jobvars, metavars, queryvars, sourcevars, readvars, ingestvars>>
    \/ ChunkAgain /\ UNCHANGED <<jobvars, metavars, queryvars, sourcevars, readvars, ingestvars>>

SpecChunk == InitChunk /\ [][NextChunk]_vars

\* chunk_text runs to its return: the loop body is executed as long as there
\* is a paragraph left.
SpecChunkFair == SpecChunk /\ WF_vars(NextChunk)

\* The cover page of an item rendered and read back.
InitMeta ==
    JobOff /\ ChunkOff /\ MetaInit(Items) /\ QueryOff /\ IngestOff /\ SourceOff /\ ReadOff

NextMeta ==
    \/ criar_pagina_info_fitz /\ UNCHANGED <<jobvars, chunkvars, queryvars, sourcevars, readvars, ingestvars>>
    \/ ExtractMetadata /\ UNCHANGED <<jobvars, chunkvars, queryvars, sourcevars, readvars, ingestvars>>

SpecMeta == InitMeta /\ [][NextMeta]_vars

\* extract_metadata on the first page of any document.
InitPage ==
    JobOff /\ ChunkOff /\ PageInit(PageTexts) /\ QueryOff /\ IngestOff /\ SourceOff /\ ReadOff

NextPage == ExtractMetadata /\ UNCHANGED <<jobvars, chunkvars, queryvars, sourcevars, readvars, ingestvars>>

SpecPage == InitPage /\ [][NextPage]_vars

\* One request to /query.
InitQuery ==
    JobOff /\ ChunkOff /\ MetaOff /\ QueryInit(QueryRequests) /\ IngestOff /\ SourceOff /\ ReadOff

QueryIdle ==
    UNCHANGED <<jobvars, chunkvars, metavars, ingestvars, sourcevars, readvars>>

NextQuery ==
    \/ QueryStart /\ QueryIdle
    \/ QueryExtract /\ QueryIdle
    \/ QueryIndex /\ QueryIdle
    \/ QueryEmbed /\ QueryIdle
    \/ QueryMerge /\ QueryIdle
    \/ QuerySearch /\ QueryIdle
    \/ QueryNoHits /\ QueryIdle
    \/ QueryGenerate /\ QueryIdle

SpecQuery == InitQuery /\ [][NextQuery]_vars

\* ingest_pdf on one document.
InitIngest ==
    /\ JobOff /\ QueryOff /\ SourceOff /\ ReadOff
    /\ ChunkInit(Texts)
    /\ PageInit(IngestPages)
    /\ IngestInit(TRUE)

NextIngest ==
    \/ IngestOpen /\ UNCHANGED <<jobvars, chunkvars, queryvars, sourcevars, readvars>>
    \/ IngestOpenFail /\ UNCHANGED <<jobvars, chunkvars, queryvars, sourcevars, readvars>>
    \/ IngestChunkFail /\ UNCHANGED <<jobvars, chunkvars, queryvars, sourcevars, readvars>>
    \/ InChunkText /\ ChunkWindows
          /\ UNCHANGED <<jobvars, metavars, queryvars, sourcevars, readvars, ingestvars>>
    \/ InChunkText /\ ChunkAppend
          /\ UNCHANGED <<jobvars, metavars, queryvars, sourcevars, readvars, ingestvars>>
    \/ InChunkText /\ ChunkFlush
          /\ UNCHANGED <<jobvars, metavars, queryvars, sourcevars, readvars, ingestvars>>
    \/ InChunkText /\ ChunkReturn
          /\ UNCHANGED <<jobvars, metavars, queryvars, sourcevars, readvars, ingestvars>>
    \/ IngestPoint /\ UNCHANGED <<jobvars, chunkvars, queryvars, sourcevars, readvars>>
    \/ IngestEmbedFail /\ UNCHANGED <<jobvars, chunkvars, queryvars, sourcevars, readvars>>
    \/ IngestUpsert /\ UNCHANGED <<jobvars, chunkvars, queryvars, sourcevars, readvars>>

SpecIngest == InitIngest /\ [][NextIngest]_vars

\* One hit of a search, with a stored content of any length of the bounds.
InitSource ==
    /\ JobOff /\ ChunkOff /\ MetaOff /\ QueryOff /\ IngestOff /\ ReadOff
    /\ SourceInit(TRUE)

NextSource ==
    QuerySource
        /\ UNCHANGED <<jobvars, chunkvars, metavars, queryvars, ingestvars,
                       readvars>>

SpecSource == InitSource /\ [][NextSource]_vars

\* One job and one siepe_status request for it, made at any moment of the
\* job's life; the listings are empty or full.
InitRead ==
    /\ JobInit(SmallRequests, {1}, {[t \in Targets |-> k] : k \in {0, MaxItens}})
    /\ ChunkOff /\ MetaOff /\ QueryOff /\ IngestOff /\ SourceOff
    /\ ReadInit(TRUE)

ReadIdle ==
    UNCHANGED <<chunkvars, metavars, queryvars, ingestvars, sourcevars>>

NextRead ==
    \/ StatusGet /\ ReadIdle /\ UNCHANGED jobvars
    \/ StatusField /\ ReadIdle /\ UNCHANGED jobvars
    \/ \E j \in Jobs :
          \/ SiepeStartCreate(j) /\ Observed /\ ReadIdle
          \/ SiepeStartThread(j) /\ Observed /\ ReadIdle
          \/ SiepeStartReturn(j) /\ Observed /\ ReadIdle
          \/ RunJobBegin(j) /\ Observed /\ ReadIdle
          \/ RunJobDispatch(j) /\ Observed /\ ReadIdle
          \/ RunJobFinish(j) /\ Observed /\ ReadIdle
          \/ RunJobExcept(j) /\ Observed /\ ReadIdle
          \/ TodosLoop(j) /\ Observed /\ ReadIdle
          \/ TodosExcept(j) /\ Observed /\ ReadIdle
          \/ UrlRet(j) /\ Observed /\ ReadIdle
          \/ UrlFetchFail(j) /\ Observed /\ ReadIdle
          \/ UrlPageStart(j) /\ Observed /\ ReadIdle
          \/ ItemStart(j) /\ Observed /\ ReadIdle
          \/ ItemBody(j) /\ Observed /\ ReadIdle
          \/ ItemFinally(j) /\ Observed /\ ReadIdle
          \/ UrlPageDone(j) /\ Observed /\ ReadIdle
          \/ UrlRaise(j) /\ Observed /\ ReadIdle
          \/ UpdateJobPatch(j) /\ Observed /\ ReadIdle
          \/ UpdateJobStamp(j) /\ Observed /\ ReadIdle
          \/ ItemDoneCount(j) /\ Observed /\ ReadIdle
          \/ ItemDoneLast(j) /\ Observed /\ ReadIdle
          \/ ItemDoneStamp(j) /\ Observed /\ ReadIdle
          \/ PageDoneCount(j) /\ Observed /\ ReadIdle
          \/ PageDoneStamp(j) /\ Observed /\ ReadIdle

SpecRead == InitRead /\ [][NextRead]_vars

\* ------------------------------------------------------------- properties
Terminal == {"done", "error"}

\* A job thread that has left _run_job.
Ended(j) == pc[j] = "end" /\ call[j] = None

\* The steps the status of a stored job may take.
StatusStep(a, b) ==
    \/ a = b
    \/ a = "queued" /\ b = "running"
    \/ a = "running" /\ b \in Terminal

\* C1: the status of every job follows queued -> running -> done or
\* queued -> running -> error: a job is stored as queued, every step keeps
\* the status or moves it along that path, and no step changes a status that
\* is done or error.
C1_StatusPath ==
    [][ \A j \in Jobs :
          /\ (j \notin DOMAIN JOBS /\ j \in DOMAIN JOBS') =>
                JOBS'[j].status = "queued"
          /\ j \in DOMAIN JOBS =>
                /\ j \in DOMAIN JOBS'
                /\ StatusStep(JOBS[j].status, JOBS'[j].status)
                /\ JOBS[j].status \in Terminal =>
                      JOBS'[j].status = JOBS[j].status ]_vars

\* A job is done while its siepe_start request has not returned yet: steps
\* follow the terminal status.
C1_Witness ==
    \E j \in DOMAIN JOBS : JOBS[j].status = "done" /\ http[j] = "started"

\* The number of events of the page's log that satisfy a test, as the set of
\* their positions.
LogPositions(l, event, status) ==
    {i \in 1..Len(l.log) : l.log[i].event = event /\ l.log[i].status = status}

\* processar_url has returned the summary of a listing it fetched, called
\* without max_itens.
ReturnedUnlimited(j) ==
    /\ pc[j] = "url_ret"
    /\ loc[j].max_itens = None
    /\ loc[j].log[1].event = "page_start"
    /\ loc[j].raised = <<>>

\* C2: a listing of N items of which M fail (at any step, in any position)
\* gives a summary with ok = N - M and falha = M, N item_done events, one per
\* item in listing order, and every item after a failing one is processed.
C2_PageCounts ==
    \A j \in Jobs :
      ReturnedUnlimited(j) =>
        LET l == loc[j]
            N == site[l.tgt]
            M == l.fails
            r == The(l.r)
            done == {i \in 1..Len(l.log) : l.log[i].event = "item_done"}
        IN /\ r.ok = N - M
           /\ r.falha = M
           /\ r.total_listados = N
           /\ Len(r.erros) = M
           /\ Cardinality(done) = N
           /\ {l.log[i].idx : i \in done} = 1..N
           /\ Cardinality(LogPositions(l, "item_done", "error")) = M
           /\ \A i \in done : \A k \in done :
                 i < k => l.log[i].idx < l.log[k].idx

\* A page of three items whose first two items failed and whose last item
\* was ingested.
C2_Witness ==
    \E j \in Jobs :
      /\ ReturnedUnlimited(j)
      /\ site[loc[j].tgt] = 3
      /\ loc[j].fails = 2
      /\ The(loc[j].r).erros[1][1] = 1
      /\ The(loc[j].r).erros[2][1] = 2
      /\ The(loc[j].r).ok = 1

\* processar_todos has returned and exactly one call of processar_url raised.
OneRaised(j) ==
    /\ pc[j] \in {"finish", "end"}
    /\ loc[j].mode = "todos"
    /\ Len(loc[j].raised) = 1

NumCombos(l) == Len(l.anos) * Len(l.areas) * Len(l.eventos)

\* The entries of detalhes that carry an error.
WithErrors(d) == {i \in 1..Len(d) : d[i].erros # <<>>}

\* The entries of detalhes synthesized for an exception.
Synthesized(d) == {i \in 1..Len(d) : d[i].erros = <<"fatal">>}

\* C3 as stated: when processar_url raises for one target, total_paginas is
\* the number of combinations, detalhes has one entry per combination and
\* exactly one entry of detalhes carries an error.
C3_Original ==
    \A j \in Jobs :
      OneRaised(j) =>
        LET res == The(loc[j].resumo)
        IN /\ res.total_paginas = NumCombos(loc[j])
           /\ Len(res.detalhes) = NumCombos(loc[j])
           /\ Cardinality(WithErrors(res.detalhes)) = 1

\* The page_done event processar_todos emits for a page that raised.
ZeroPageDone(e, tgt) ==
    /\ e.event = "page_done" /\ e.tgt = tgt
    /\ e.ok = 0 /\ e.falha = 0 /\ e.total = 0 /\ e.error = "fatal"

\* C3, amended: when processar_url raises for one target, the crawl visits
\* every combination: total_paginas is the number of combinations, detalhes
\* has one entry per combination, exactly one entry is the zero-totals entry
\* that carries the exception's error, it stands at the raising target, and
\* the last event of the raising page is a zero-totals page_done; the other
\* entries may carry the errors of their own items.
C3_OneRaise ==
    \A j \in Jobs :
      /\ OneRaised(j) =>
           LET res == The(loc[j].resumo)
               syn == Synthesized(res.detalhes)
           IN /\ res.total_paginas = NumCombos(loc[j])
              /\ Len(res.detalhes) = NumCombos(loc[j])
              /\ Cardinality(syn) = 1
              /\ \A i \in syn :
                    /\ res.detalhes[i].url = loc[j].raised[1]
                    /\ res.detalhes[i].ok = 0 /\ res.detalhes[i].falha = 0
                    /\ res.detalhes[i].total_listados = 0
      /\ (pc[j] = "url_ret" /\ loc[j].mode = "todos" /\ loc[j].raised # <<>>
            /\ loc[j].raised[Len(loc[j].raised)] = loc[j].tgt) =>
           /\ ZeroPageDone(loc[j].log[Len(loc[j].log)], loc[j].tgt)
           /\ The(loc[j].r) = PageSummary(loc[j].tgt, 0, 0, 0, <<"fatal">>)

\* A crawl of two pages has returned; the first page raised and the second
\* was scraped.
C3_Witness ==
    \E j \in Jobs :
      /\ OneRaised(j)
      /\ NumCombos(loc[j]) = 2
      /\ The(loc[j].resumo).detalhes[1].erros = <<"fatal">>
      /\ The(loc[j].resumo).detalhes[2].total_listados = 2

\* An exception left the crawl call of _run_job (processar_todos catches
\* every exception of a page; processar_url called directly does not).
Escaped(j) == loc[j].mode = "url" /\ loc[j].raised # <<>>

\* C4: once the crawl call of a job is over and _run_job has ended, the
\* status is done with the returned summary as result when the crawl
\* returned, and error with the exception's message when an exception left
\* the crawl; the job is never left queued or running.
C4_TerminalStatus ==
    \A j \in Jobs :
      Ended(j) =>
        /\ j \in DOMAIN JOBS
        /\ JOBS[j].status \in Terminal
        /\ IF Escaped(j)
           THEN /\ JOBS[j].status = "error"
                /\ JOBS[j].error = Some("fatal")
                /\ JOBS[j].result = None
           ELSE /\ JOBS[j].status = "done"
                /\ IsSome(JOBS[j].result)
                /\ JOBS[j].result = loc[j].resumo
                /\ JOBS[j].error = None

\* A crawl ended done although one of its pages raised and an item of
\* another page failed.
C4_Witness ==
    \E j \in Jobs :
      /\ Ended(j)
      /\ JOBS[j].status = "done"
      /\ loc[j].raised # <<>>
      /\ The(JOBS[j].result).falha > 0

\* C5: counters.ok, counters.falha and pages.done of a job never decrease.
C5_CountersMonotone ==
    [][ \A j \in DOMAIN JOBS :
          /\ j \in DOMAIN JOBS'
          /\ JOBS'[j].counters.ok >= JOBS[j].counters.ok
          /\ JOBS'[j].counters.falha >= JOBS[j].counters.falha
          /\ JOBS'[j].pages.done >= JOBS[j].pages.done ]_vars

\* A job that counted three ingested items.
C5_Witness ==
    \E j \in DOMAIN JOBS :
      JOBS[j].counters.ok = 3 /\ JOBS[j].status = "done"

\* The temporary files of a job's items that exist.
TmpFilesOf(j) == {f \in fs : f[1] = j}

\* C6: when a thread is not between the try of an item and its finally, no
\* temporary file created for its items exists.
C6_NoTmpLeft ==
    \A j \in Jobs :
      pc[j] \notin {"item_try", "item_finally"} => TmpFilesOf(j) = {}

\* ---------------------------------------------------- properties: chunk_text
Returned == cpc = "done"

\* The last k tokens of a token sequence of at least k tokens.
LastN(toks, k) == SubSeq(toks, Len(toks) - k + 1, Len(toks))

\* C7: every chunk returned by chunk_text has at most max_tokens tokens,
\* the chunks built from a buffer seeded with the overlap of the previous
\* chunk included.
C7_ChunkLimit ==
    Returned => \A i \in 1..Len(chunks) : Len(chunks[i]) <= max_tokens

\* The chunks without their overlap prefixes.
NonOverlap ==
    [i \in 1..Len(chunks) |->
        SubSeq(chunks[i], kinds[i].ov + 1, Len(chunks[i]))]

\* C8: chunk_text loses no paragraph: the returned chunks without their
\* overlap prefixes, concatenated, are the non-empty paragraphs of the text
\* in order.
C8_NoParagraphLost ==
    Returned => Join(NonOverlap) = Join(Paragraphs(text))

\* C9: a buffer started after a flush begins with exactly the trailing
\* overlap_tokens tokens of the flushed chunk (the whole chunk if it is
\* shorter), followed by the paragraphs put in it; a buffer started after
\* the windows of an oversized paragraph holds its paragraphs only.
C9_OverlapSeed ==
    IF IsSome(cur_seed)
    THEN LET prev == The(cur_seed).prev
         IN Join(current) =
                LastN(prev, Min(overlap_tokens, Len(prev))) \o Join(cur_paras)
    ELSE Join(current) = Join(cur_paras)

\* The chunks a step appended.
Appended == SubSeq(chunks', Len(chunks) + 1, Len(chunks'))

\* A step of the loop that handles a paragraph of more than max_tokens
\* tokens.
OversizedStep ==
    /\ cpc = "loop" /\ ip <= Len(Paragraphs(text)) /\ ip' = ip + 1
    /\ Len(Paragraphs(text)[ip]) > max_tokens

\* The windows of an oversized paragraph: they start at offsets 0, s, 2s,
\* ... below L, hold the tokens that follow the offset up to max_tokens of
\* them, and every token of the paragraph is in one of them.
SlidingWindows ==
    [][ OversizedStep =>
          LET P == Paragraphs(text)[ip]
              L == Len(P)
              s == max_tokens - overlap_tokens
              n == (L + s - 1) \div s
          IN /\ SubSeq(chunks', 1, Len(chunks)) = chunks
             /\ Len(Appended) = n
             /\ \A k \in 1..n :
                   /\ Appended[k] =
                         SubSeq(P, (k - 1) * s + 1,
                                Min((k - 1) * s + max_tokens, L))
                   /\ Len(Appended[k]) \in 1..max_tokens
             /\ \A t \in 1..L :
                   \E k \in 1..n :
                     /\ (k - 1) * s < t
                     /\ t <= (k - 1) * s + Len(Appended[k])
                     /\ Appended[k][t - (k - 1) * s] = P[t] ]_vars

\* A second call with the same arguments returns what the first returned.
SameAgain == (Returned /\ IsSome(earlier)) => chunks = The(earlier)

\* C23: for a paragraph of L > max_tokens tokens and 0 <= overlap_tokens <
\* max_tokens, chunk_text appends windows that start at token offsets 0, s,
\* 2s, ... (s = max_tokens - overlap_tokens), each of at most max_tokens
\* consecutive tokens, covering every token of the paragraph in order; every
\* call returns, and a call returns the same chunks as an earlier call with
\* the same arguments.
C23_Windows ==
    /\ SlidingWindows
    /\ []SameAgain
    /\ <>(Returned /\ IsSome(earlier))

\* Both calls returned the three windows of a paragraph of five tokens cut
\* with max_tokens = 3 and overlap_tokens = 1.
C23_Witness ==
    /\ Returned /\ IsSome(earlier)
    /\ Len(text) = 1 /\ Len(text[1]) = 5
    /\ max_tokens = 3 /\ overlap_tokens = 1
    /\ chunks = <<SubSeq(text[1], 1, 3), SubSeq(text[1], 3, 5),
                  SubSeq(text[1], 5, 5)>>

\* ---------------------------------------------------- properties: cover page
\* C10: extract_metadata applied to the cover page text returns for every
\* field the value that was rendered (for an empty value: the empty string,
\* or no entry).
C10_RoundTrip ==
    mpc = "done" =>
        \A k \in Keys :
            IF fields[k] = <<>> THEN meta[k] \in {None, Some(<<>>)}
            ELSE meta[k] = Some(fields[k])

\* ---------------------------------------------------- properties: query
Answered == qpc = "done"

\* C11: a question that is empty or holds only white space is refused with
\* the 422 of the empty query, and no call to the completion service, the
\* embedding model or the vector store is made for it.
C11_EmptyRefused ==
    Strip(qreq.q) = <<>> /\ qpc # "off" =>
        /\ qcalls = <<>>
        /\ qpc \in {"start", "done"}
        /\ Answered => qres = Some(HTTPError(422, "Query vazia."))

C11_Witness ==
    /\ Answered
    /\ qreq.q # <<>> /\ Strip(qreq.q) = <<>>
    /\ The(qres).status = 422

AnswerCalls ==
    { i \in 1..Len(qcalls) : qcalls[i] = [to |-> "completion",
                                          what |-> "answer"] }

\* C12: when the search returned no hit, the response is the fixed answer
\* with no sources, and the completion service is not asked for an answer.
C12_NoHits ==
    IsSome(qloc.hits) /\ The(qloc.hits) = 0 =>
        /\ AnswerCalls = {}
        /\ Answered =>
             qres = Some(Answer("Desculpe, não encontrei conteúdo relevante.",
                                0))

C12_Witness ==
    /\ Answered
    /\ IsSome(qloc.hits) /\ The(qloc.hits) = 0
    /\ The(qres).status = 200

\* C13: the filter of the search is the merge of the manual and the
\* extracted filters: its keys are those of both, a key of the extracted
\* filters has the extracted value, any other key the manual value; and
\* there is no filter when both are empty.
C13_MergedFilter ==
    IsSome(qloc.search_args) =>
        LET manual == IF IsSome(qreq.filters) THEN The(qreq.filters) ELSE <<>>
            extracted == The(qloc.extraction_result).filters.map
            used == The(qloc.search_args).query_filter
        IN IF (DOMAIN manual) \cup (DOMAIN extracted) = {}
           THEN used = None
           ELSE /\ IsSome(used)
                /\ DOMAIN The(used) = (DOMAIN manual) \cup (DOMAIN extracted)
                /\ \A k \in DOMAIN The(used) :
                      The(used)[k] = IF k \in DOMAIN extracted
                                     THEN extracted[k] ELSE manual[k]

C13_Witness ==
    /\ IsSome(qloc.search_args)
    /\ IsSome(qreq.filters)
    /\ LET manual == The(qreq.filters)
           extracted == The(qloc.extraction_result).filters.map
       IN /\ \E k \in (DOMAIN manual) \cap (DOMAIN extracted) :
                manual[k] # extracted[k]
          /\ (DOMAIN manual) \ (DOMAIN extracted) # {}

Returns(j) == http[j] # "returned" /\ http'[j] = "returned"

\* What siepe_status answers for job j: the stored snapshot, if any.
siepe_status(j) == IF j \in DOMAIN JOBS THEN Some(JOBS[j]) ELSE None

\* C15 as stated: when siepe_start returns the id, the job is stored and its
\* status is queued or running.
C15_Original ==
    [][ \A j \in Jobs :
          Returns(j) => /\ IsSome(siepe_status(j))
                        /\ JOBS[j].status \in {"queued", "running"} ]_vars

\* C15: when siepe_start returns the id, the job is stored and visible to
\* siepe_status; its status is queued or running, or already done or error
\* when the job thread has made its last update before the return.
C15_SubmitVisible ==
    [][ \A j \in Jobs :
          Returns(j) =>
            /\ IsSome(siepe_status(j))
            /\ \/ JOBS[j].status \in {"queued", "running"}
               \/ JOBS[j].status \in Terminal /\ pc[j] = "end" ]_vars

\* siepe_start has returned and the job thread has not begun.
C15_Witness ==
    \E j \in Jobs : /\ http[j] = "returned"
                    /\ IsSome(siepe_status(j))
                    /\ JOBS[j].status = "queued"

\* ---------------------------------------------------- properties: job store
\* Job j is inside a locked section in this step: it holds the lock before
\* or after it, or the step is the with block of siepe_start, entered with
\* the lock free.
Locked(j) ==
    \/ JOB_LOCK = j
    \/ JOB_LOCK' = j
    \/ JOB_LOCK = 0 /\ http[j] = "idle" /\ http'[j] = "created"

Snapshot(store, j) == IF j \in DOMAIN store THEN Some(store[j]) ELSE None

\* The item_done (page_done) events of job j whose handler has not yet
\* counted them.
Uncounted(j, fn) == IF InCall(j, fn, 1) THEN 1 ELSE 0

\* Every step that changes the snapshot of a job is a step of that job made
\* inside a locked section; no step of another job changes it.
LockedMutation ==
    [][ \A j \in Jobs :
          Snapshot(JOBS', j) # Snapshot(JOBS, j) => Locked(j) ]_vars

\* No update is lost: for each stored job, counters.ok + counters.falha is
\* the number of item_done events its callback was called with, and
\* pages.done the number of its page_done events (an event whose handler is
\* still waiting for the lock is not counted yet).
NoLostUpdate ==
    \A j \in DOMAIN JOBS :
        /\ JOBS[j].counters.ok + JOBS[j].counters.falha =
              loc[j].sent.item_done - Uncounted(j, "item_done")
        /\ JOBS[j].pages.done =
              loc[j].sent.page_done - Uncounted(j, "page_done")

\* C16: with concurrent jobs, the store is only changed inside locked
\* sections, by the job the snapshot belongs to, and no update is lost.
C16_Serialized == LockedMutation /\ []NoLostUpdate

\* All the concurrent jobs have counted an item and a page.
C16_Witness ==
    \A j \in Jobs :
        /\ j \in DOMAIN JOBS
        /\ JOBS[j].counters.ok + JOBS[j].counters.falha > 0
        /\ JOBS[j].pages.done > 0

\* ---------------------------------------------------- properties: fetch
\* The page job j is at could not be fetched or parsed: the error of the
\* fetch is in an event of the page or in its summary.
FetchFailed(j) ==
    \/ \E i \in 1..Len(loc[j].log) : loc[j].log[i].error = "fetch"
    \/ /\ IsSome(loc[j].r)
       /\ \E i \in 1..Len(The(loc[j].r).erros) : The(loc[j].r).erros[i] = "fetch"

\* C17: when the listing page cannot be fetched or parsed, processar_url
\* emits one event for the page, a page_done with ok = 0, falha = 0,
\* total = 0 and the error; no page_start, item_start or item_done; it does
\* not raise, and returns a summary of zero totals whose errors hold that
\* error.
C17_FetchFailure ==
    \A j \in Jobs :
        pc[j] = "url_ret" /\ FetchFailed(j) =>
            /\ loc[j].log = <<Evt("page_done", loc[j].tgt, 0, 0, "", "fetch",
                                  0, 0)>>
            /\ loc[j].r = Some(PageSummary(loc[j].tgt, 0, 0, 0, <<"fetch">>))
            /\ \A i \in 1..Len(loc[j].raised) : loc[j].raised[i] # loc[j].tgt

\* processar_url has returned from a failed fetch and the callback is over.
C17_Witness ==
    \E j \in Jobs : /\ At(j, "url_ret")
                    /\ FetchFailed(j)
                    /\ JOBS[j].pages.done > 0

\* ---------------------------------------------------- properties: metadata
\* C18: the dict extract_metadata returns has a key only for a field whose
\* pattern matched, and every value in it is a non-empty string.
C18_NoEmptyField ==
    mpc = "done" =>
        \A k \in Keys :
            /\ IsSome(meta[k]) => IsSome(Search(texto, k))
            /\ IsSome(meta[k]) => The(meta[k]) # <<>>

\* ---------------------------------------------------- properties: ingest_pdf
\* C19: for a document of k chunks ingest_pdf hands one batch to
\* qdrant.upsert; it holds k points, whose chunk_index are 0 .. k-1 in the
\* order of the chunks, which carry the same doc_id and the same metadata,
\* and whose ids are pairwise distinct.
C19_OneBatch ==
    /\ Len(writes) <= 1
    /\ ipc = "done" =>
        /\ Len(writes) = 1
        /\ LET batch == writes[1]
           IN /\ Len(batch) = Len(chunks)
              /\ \A i \in 1..Len(batch) :
                    /\ batch[i].payload.chunk_index = i - 1
                    /\ batch[i].payload.content = chunks[i]
                    /\ batch[i].payload.doc_id = doc_id
                    /\ batch[i].payload.meta = meta
              /\ \A i, k \in 1..Len(batch) :
                    i # k => batch[i].id # batch[k].id

\* A document with a title on its first page and several chunks is written.
C19_Witness ==
    /\ ipc = "done"
    /\ Len(chunks) >= 2
    /\ IsSome(meta["titulo"])

\* ingest_pdf was left by an exception raised before the call of
\* qdrant.upsert: by the opening of the document, by chunk_text or by
\* embed_text.
FailedBeforeWrite ==
    /\ ipc = "raised"
    /\ \/ doc_id = None
       \/ cpc # "done"
       \/ Len(points) < Len(chunks)

\* Every chunk of the document has been embedded.
AllEmbedded == cpc = "done" /\ Len(points) = Len(chunks)

\* A step hands something to qdrant.upsert only after every chunk has been
\* embedded, and what it hands over is the whole list of points.
WriteAfterEmbedding ==
    [][ writes' # writes =>
          /\ ipc = "chunk" /\ AllEmbedded
          /\ writes = <<>> /\ writes' = <<points>> ]_vars

\* C27: ingest_pdf issues its single upsert only after every chunk of the
\* document has been embedded; when opening the document, chunking it or
\* embedding one of its chunks fails, nothing of the document is written.
C27_AllOrNothing ==
    /\ WriteAfterEmbedding
    /\ [](FailedBeforeWrite => writes = <<>>)
    /\ [](writes # <<>> => AllEmbedded /\ Len(writes[1]) = Len(chunks))

\* The embedding of a chunk failed after another chunk had been embedded.
C27_Witness ==
    /\ FailedBeforeWrite
    /\ Len(points) >= 1
    /\ Len(points) < Len(chunks)
    /\ writes = <<>>

\* ---------------------------------------------------- properties: termination
\* C20: every submitted job eventually has the status done or error.
C20_Terminates ==
    \A j \in Jobs :
        (j \in DOMAIN JOBS) ~> (j \in DOMAIN JOBS /\ JOBS[j].status \in Terminal)

\* A job has gone through all the pages of a crawl of several pages and is
\* done.
C20_Witness ==
    \E j \in Jobs :
        /\ Ended(j)
        /\ JOBS[j].status = "done"
        /\ JOBS[j].pages.done = NumCombos(loc[j])
        /\ NumCombos(loc[j]) > 1

\* ---------------------------------------------------- properties: page events
\* The events of the page's log that processar_url emitted (processar_todos
\* appends the page_done of a page that raised).
ByUrl(log) == SelectSeq(log, LAMBDA e : e.error # "fatal")

\* The events before position i that are item_done events with a status.
DoneBefore(log, i, status) ==
    {k \in 1..(i - 1) : log[k].event = "item_done" /\ log[k].status = status}

\* Event i of the log of a fetched page stands where the loop of
\* processar_url puts it.
InPlace(log, i) ==
    LET e == log[i]
    IN CASE e.event = "page_start" -> i = 1
         [] e.event = "item_start" ->
               /\ i > 1
               /\ \/ log[i - 1].event = "page_start" /\ e.idx = 1
                  \/ log[i - 1].event = "item_done" /\ e.idx = log[i - 1].idx + 1
         [] e.event = "item_done" ->
               /\ i > 1
               /\ log[i - 1].event = "item_start"
               /\ log[i - 1].idx = e.idx
               /\ e.status \in {"ok", "error"}
         [] e.event = "page_done" ->
               /\ i > 1 /\ i = Len(log)
               /\ log[i - 1].event \in {"page_start", "item_done"}
               /\ e.ok = Cardinality(DoneBefore(log, i, "ok"))
               /\ e.falha = Cardinality(DoneBefore(log, i, "error"))
         [] OTHER -> FALSE

\* The log of job j belongs to a listing that was fetched.
Fetched(j) == loc[j].log # <<>> /\ loc[j].log[1].event = "page_start"

\* processar_url has returned the summary of a fetched listing.
ReturnedPage(j) ==
    /\ pc[j] = "url_ret"
    /\ Fetched(j)
    /\ loc[j].log[Len(loc[j].log)].error # "fatal"

\* The log of a page in every state: one page_start, then item_start and
\* item_done in pairs with idx 1, 2, ..., and a page_done with the counts of
\* the item_done events once processar_url has returned.
PageSequence ==
    \A j \in Jobs :
      Fetched(j) =>
        LET log == ByUrl(loc[j].log)
        IN /\ \A i \in 1..Len(log) :
                 InPlace(log, i) /\ log[i].tgt = log[1].tgt
           /\ ReturnedPage(j) => log[Len(log)].event = "page_done"

\* A step that starts the log of another page leaves a log that is empty or
\* ends with a page_done.
PageAfterPage ==
    [][ \A j \in Jobs :
          (loc'[j].log # loc[j].log /\ Len(loc'[j].log) = 1) =>
             \/ loc[j].log = <<>>
             \/ loc[j].log[Len(loc[j].log)].event = "page_done" ]_vars

\* C21: the events processar_url emits for a fetched page are one
\* page_start, then for each item in listing order (idx 1, 2, ...) one
\* item_start immediately followed by one item_done of the same idx, then one
\* page_done whose ok and falha are the numbers of item_done events with
\* status ok and error; and no event of a later page of a job is emitted
\* before the page_done of the page before it.
C21_EventOrder == []PageSequence /\ PageAfterPage

\* The second page of a crawl has returned after one ingested and one failed
\* item.
C21_Witness ==
    \E j \in Jobs :
      /\ ReturnedPage(j)
      /\ loc[j].mode = "todos"
      /\ The(loc[j].resumo).total_paginas = 1
      /\ Len(loc[j].log) = 6
      /\ loc[j].log[3].status = "ok"
      /\ loc[j].log[5].status = "error"

\* ---------------------------------------------------- properties: max_itens
\* The positions of the log that hold an event of a kind.
EventsOf(log, event) == {i \in 1..Len(log) : log[i].event = event}

\* C25: with max_itens = k >= 0 on a listing of N rows, processar_url
\* processes the first min(N, k) items: min(N, k) item_start and item_done
\* events with idx 1..min(N, k), ok + falha = min(N, k); the total of
\* page_start, of every item event, of page_done and total_listados of the
\* summary are N.
C25_MaxItens ==
    \A j \in Jobs :
      (Fetched(j) /\ IsSome(loc[j].max_itens) /\ The(loc[j].max_itens) >= 0) =>
        LET log == ByUrl(loc[j].log)
            N == site[log[1].tgt]
            m == Min(N, The(loc[j].max_itens))
        IN /\ \A i \in 1..Len(log) : log[i].total = N
           /\ \A i \in EventsOf(log, "item_start") : log[i].idx \in 1..m
           /\ ReturnedPage(j) =>
                 /\ Cardinality(EventsOf(log, "item_start")) = m
                 /\ Cardinality(EventsOf(log, "item_done")) = m
                 /\ {log[i].idx : i \in EventsOf(log, "item_done")} = 1..m
                 /\ The(loc[j].r).ok + The(loc[j].r).falha = m
                 /\ The(loc[j].r).total_listados = N

\* A listing of three rows was scraped with max_itens = 2: the first item
\* was ingested and the second failed.
C25_Witness ==
    \E j \in Jobs :
      /\ ReturnedPage(j)
      /\ loc[j].max_itens = Some(2)
      /\ site[loc[j].tgt] = 3
      /\ The(loc[j].r) = PageSummary(loc[j].tgt, 3, 1, 1, <<<<2, "corrupt">>>>)

\* ---------------------------------------------------- properties: crawl
\* The k-th combination of the years, categories and events of a crawl: years
\* outermost, events innermost.
Combo(l, k) ==
    LET q == k - 1
        ne == Len(l.eventos)
        nc == Len(l.areas)
    IN <<l.anos[(q \div (ne * nc)) + 1],
         l.areas[((q \div ne) % nc) + 1],
         l.eventos[(q % ne) + 1]>>

\* The sum of the ok or falha of the per-page summaries.
RECURSIVE SumOk(_)
SumOk(d) == IF d = <<>> THEN 0 ELSE Head(d).ok + SumOk(Tail(d))

RECURSIVE SumFalha(_)
SumFalha(d) == IF d = <<>> THEN 0 ELSE Head(d).falha + SumFalha(Tail(d))

\* processar_todos has returned its summary.
TodosReturned(j) == pc[j] \in {"finish", "end"} /\ loc[j].mode = "todos"

\* C22: processar_todos calls processar_url once for each (year, category,
\* event) combination, years outermost and events innermost; the summary it
\* returns has total_paginas = number of combinations = length of detalhes,
\* ok and falha the sums of the per-page ok and falha, and detalhes holds
\* the per-page summaries in visiting order.
C22_CrawlSummary ==
    \A j \in Jobs :
      loc[j].mode = "todos" =>
        LET l == loc[j]
            res == The(l.resumo)
        IN /\ Len(l.calls) <= NumCombos(l)
           /\ \A k \in 1..Len(l.calls) : l.calls[k] = Combo(l, k)
           /\ \A k \in 1..Len(res.detalhes) : res.detalhes[k].url = l.calls[k]
           /\ res.total_paginas = Len(res.detalhes)
           /\ res.ok = SumOk(res.detalhes)
           /\ res.falha = SumFalha(res.detalhes)
           /\ TodosReturned(j) =>
                 /\ Len(l.calls) = NumCombos(l)
                 /\ res.total_paginas = NumCombos(l)

\* A crawl of the default catalogue has returned.
C22_Witness ==
    \E j \in Jobs :
      /\ TodosReturned(j)
      /\ NumCombos(loc[j]) = NumAnos * NumAreas * NumEventos
      /\ Len(loc[j].areas) > 1 /\ Len(loc[j].eventos) > 1
      /\ Len(loc[j].anos) > 1

\* ---------------------------------------------------- properties: counters
\* A crawl-all job whose snapshot says done.
CrawlDone(j) ==
    /\ j \in DOMAIN JOBS
    /\ JOBS[j].status = "done"
    /\ loc[j].mode = "todos"

\* C26: whenever a crawl-all job has status done, counters.ok = result.ok,
\* counters.falha = result.falha and pages.done = result.total_paginas.
C26_CountersAgree ==
    \A j \in Jobs :
      CrawlDone(j) =>
        LET st == JOBS[j]
            res == The(st.result)
        IN /\ st.counters.ok = res.ok
           /\ st.counters.falha = res.falha
           /\ st.pages.done = res.total_paginas

\* What does hold of a crawl-all job that is done: pages.done =
\* result.total_paginas, and counters.ok >= result.ok and counters.falha >=
\* result.falha, with equality when no call of processar_url raised: the
\* items a page counted before it raised stay in the counters, while the
\* summary entry synthesized for that page has ok = falha = 0.
CountersAboveResult ==
    \A j \in Jobs :
      CrawlDone(j) =>
        LET st == JOBS[j]
            res == The(st.result)
        IN /\ st.pages.done = res.total_paginas
           /\ st.pages.done = loc[j].sent.page_done
           /\ st.counters.ok + st.counters.falha = loc[j].sent.item_done
           /\ st.counters.ok >= res.ok
           /\ st.counters.falha >= res.falha
           /\ loc[j].raised = <<>> =>
                 /\ st.counters.ok = res.ok
                 /\ st.counters.falha = res.falha

\* A crawl of two pages is done; one page raised after it had an item
\* ingested, the other was scraped with an item ingested and an item failed.
CountedNotSummed ==
    \E j \in Jobs :
      /\ CrawlDone(j)
      /\ Len(loc[j].raised) = 1
      /\ JOBS[j].pages.done = 2
      /\ JOBS[j].counters = [ok |-> 2, falha |-> 1]
      /\ The(JOBS[j].result).ok = 1
      /\ The(JOBS[j].result).falha = 1

\* ---------------------------------------------------- properties: sources
\* C24: the snippet query_endpoint puts in the sources list for a hit has at
\* most 200 characters, whatever the length of the stored content.
C24_SnippetCap ==
    spc = "done" => Len(The(snippet)) <= 200

\* ---------------------------------------------------- properties: event frame
\* The fields of a snapshot a step changed.
Changed(a, b) == {f \in DOMAIN a : a[f] # b[f]}

\* The progress event a callback invocation handles; "" for the status
\* updates of _run_job.
EventOf(c) ==
    CASE c.fn = "item_done" -> "item_done"
      [] c.fn = "page_done" -> "page_done"
      [] c.fn = "update" /\ "current_page" \in DOMAIN c.arg -> "page_start"
      [] c.fn = "update" /\ "last_item" \in DOMAIN c.arg -> "item_start"
      [] OTHER -> ""

\* The last statement of a handler: it refreshes updated_at.
LastStep(c) ==
    c.step = CASE c.fn = "item_done" -> 3 [] OTHER -> 2

\* What one statement of the handler of an event may do to the snapshot a
\* to give b.
FrameStep(c, a, b) ==
    LET ch == Changed(a, b)
        e == EventOf(c)
    IN /\ ch \cap {"status", "params", "created_at", "result", "error"} = {}
       /\ "updated_at" \in ch <=> LastStep(c)
       /\ LastStep(c) => ch = {"updated_at"} /\ b.updated_at = Tick(a.updated_at)
       /\ CASE e = "page_start" ->
                  ch \subseteq {"current_page", "updated_at"}
            [] e = "item_start" ->
                  ch \subseteq {"last_item", "updated_at"}
            [] e = "page_done" ->
                  /\ ch \subseteq {"pages", "updated_at"}
                  /\ c.step = 1 => b.pages.done = a.pages.done + 1
            [] e = "item_done" /\ c.arg.status = "ok" ->
                  /\ ch \subseteq {"counters", "last_item", "last_ok_item",
                                    "updated_at"}
                  /\ c.step = 1 =>
                        /\ b.counters = [a.counters EXCEPT !.ok = @ + 1]
                        /\ b.last_item = a.last_item
                  /\ c.step = 2 => ch \subseteq {"last_item"}
            [] e = "item_done" /\ c.arg.status # "ok" ->
                  /\ ch \subseteq {"counters", "last_item", "errors",
                                    "updated_at"}
                  /\ c.step = 1 =>
                        /\ b.counters = [a.counters EXCEPT !.falha = @ + 1]
                        /\ Len(b.errors) = Len(a.errors) + 1
                        /\ b.last_item = a.last_item
                  /\ c.step = 2 => ch \subseteq {"last_item"}
            [] OTHER -> FALSE

\* C29: page_start changes only current_page and updated_at; item_start only
\* last_item and updated_at; page_done only pages.done, by plus one, and
\* updated_at, also when it carries an error; item_done changes one of
\* counters.ok and counters.falha by plus one, last_item, and last_ok_item
\* (on ok) or errors (on error), and updated_at; none of them changes status,
\* params, created_at or result.
C29_EventFrame ==
    [][ \A j \in DOMAIN JOBS :
          (IsSome(call[j]) /\ call'[j] # call[j]
             /\ EventOf(The(call[j])) # "") =>
             /\ j \in DOMAIN JOBS'
             /\ FrameStep(The(call[j]), JOBS[j], JOBS'[j]) ]_vars

\* A crawl of two pages has handled all its events: the listing of one page
\* could not be fetched, the other page had an item ingested and an item
\* failed.
C29_Witness ==
    \E j \in DOMAIN JOBS :
      /\ call[j] = None /\ pc[j] = "finish"
      /\ JOBS[j].pages.done = 2
      /\ JOBS[j].counters = [ok |-> 1, falha |-> 1]
      /\ Len(JOBS[j].errors) = 1
      /\ The(loc[j].resumo).detalhes[1].erros = <<"fetch">>
      /\ JOBS[j].status = "running"

\* ---------------------------------------------------- properties: status reads
\* C28: every response of siepe_status for a job equals a snapshot the job
\* had between two complete mutations: a request running concurrently with
\* the handlers of the progress events never observes a half-applied event.
C28_NoTornRead ==
    rd.pc = "done" => rd.res \in seen

\* A response that shows an item counted in counters while last_item still
\* says that the item is being processed.
CountedWhileProcessing ==
    /\ rd.pc = "done" /\ IsSome(rd.res)
    /\ The(rd.res).counters.ok + The(rd.res).counters.falha = 1
    /\ IsSome(The(rd.res).last_item)
    /\ The(The(rd.res).last_item).status = "processing"
    /\ The(The(rd.res).last_item).idx = 1

====
